---------------------------- MODULE Spec2Model ----------------------------
(***************************************************************************)
(* Model of the chat handler of backend/app/main.py (websocket_chat): tool *)
(* discovery against the registered remote MCP endpoints, normalisation of *)
(* the discovered tools into the completion boundary's calling convention, *)
(* the completion call with its overload retries, and the execution of the *)
(* tool calls the model requests.                                          *)
(*                                                                         *)
(* Strings that the code inspects character by character (endpoint ids,    *)
(* tool names) are sequences of one-character strings.                     *)
(***************************************************************************)
EXTENDS Integers, Sequences, FiniteSets, TLC

(***************************************************************************)
(* Bounds of the model.                                                    *)
(***************************************************************************)
\* Requests handled on one connection.
MaxTurns == 2
\* Endpoint ids selected in one chat request.
MaxServers == 2
\* Tool calls in one completion result.
MaxCalls == 2

(***************************************************************************)
(* Program constants.                                                      *)
(***************************************************************************)
\* main.py:1576  if len(full_name) > 128: full_name = full_name[:128]
MaxNameLen == 128
\* main.py:1614  max_tools = 50
max_tools == 50
\* main.py:1660  max_retries = 3
max_retries == 3
\* main.py:1661  retry_delay = 1
retry_delay == 1
\* main.py:1719  max_tool_rounds = 5
max_tool_rounds == 5
\* main.py:1310  JSON-RPC "method not found"
MethodNotFound == -32601

(***************************************************************************)
(* Character strings.                                                      *)
(***************************************************************************)
Pad(k, c) == SubSeq([i \in 1..k |-> c], 1, k)

Take(s, k) == IF Len(s) <= k THEN s ELSE SubSeq(s, 1, k)

\* The letter e with an acute accent, one character, written by its code
\* point.
EAcute == "U+00E9"

\* str.isalnum() on the characters the model uses: it is true of every
\* Unicode letter and digit, not only of the ASCII ones.
IsAlnum(c) ==
    c \in {"a", "b", "c", "d", "e", "f", "g", "i", "k", "l", "m", "n", "o",
           "p", "s", "t", "u", "w", "x", "y", "G", "I", "N", "P", "1", "2",
           EAcute}

\* s.replace(from, to) for one-character from and to.
Replace(s, from, to) ==
    SubSeq([i \in 1..Len(s) |-> IF s[i] = from THEN to ELSE s[i]], 1, Len(s))

\* s.startswith(p)
StartsWith(s, p) == Len(s) >= Len(p) /\ SubSeq(s, 1, Len(p)) = p

\* Positions at which "__" occurs in s.
SepPositions(s) == {i \in 1..(Len(s) - 1) : s[i] = "_" /\ s[i + 1] = "_"}

Min(S) == CHOOSE x \in S : \A y \in S : x <= y

Sep == <<"_", "_">>
unknown_tool == <<"u", "n", "k", "n", "o", "w", "n", "_", "t", "o", "o", "l">>
unknown == <<"u", "n", "k", "n", "o", "w", "n">>
composio == <<"c", "o", "m", "p", "o", "s", "i", "o">>


(***************************************************************************)
(* Tool descriptors as the endpoints return them, and their schemas.       *)
(* A schema value is k = "absent" (no such key), "null", "nondict" (a      *)
(* value that is not a JSON object) or "dict"; for a dict, type is the     *)
(* value of its "type" key ("none": no such key), props says whether it    *)
(* has a "properties" key and extra whether it has any other key.          *)
(***************************************************************************)
Schema(k, type, props, extra) ==
    [k |-> k, type |-> type, props |-> props, extra |-> extra]

SchemaAbsent == Schema("absent", "none", FALSE, FALSE)
SchemaNull == Schema("null", "none", FALSE, FALSE)
SchemaNonDict == Schema("nondict", "none", FALSE, FALSE)
SchemaEmpty == Schema("dict", "none", FALSE, FALSE)
SchemaUntyped == Schema("dict", "none", FALSE, TRUE)
SchemaObject == Schema("dict", "object", TRUE, FALSE)
SchemaObjectNoProps == Schema("dict", "object", FALSE, FALSE)
SchemaString == Schema("dict", "string", FALSE, FALSE)

\* {"type": "object", "properties": {}}
DefaultParams == Schema("dict", "object", TRUE, FALSE)

\* A descriptor: a JSON object with an optional name (nameKind "str",
\* "absent" or "null") and up to three schema keys, or a non-object entry.
Desc(nameKind, name, inputSchema, input_schema, parameters) ==
    [isdict |-> TRUE, nameKind |-> nameKind, name |-> name,
     inputSchema |-> inputSchema, input_schema |-> input_schema,
     parameters |-> parameters]

Tool(name, inputSchema) ==
    Desc("str", name, inputSchema, SchemaAbsent, SchemaAbsent)

NonDictEntry ==
    [isdict |-> FALSE, nameKind |-> "absent", name |-> <<>>,
     inputSchema |-> SchemaAbsent, input_schema |-> SchemaAbsent,
     parameters |-> SchemaAbsent]

(***************************************************************************)
(* Tool Schema Normalizer (main.py:1502-1594).                             *)
(***************************************************************************)
\* bool(params) is False: None, or an empty dict.
Falsy(p) ==
    \/ p.k = "null"
    \/ p.k = "dict" /\ p.type = "none" /\ ~p.props /\ ~p.extra

\* tool.get("inputSchema", tool.get("input_schema", tool.get("parameters", {})))
LookupSchema(tool) ==
    IF tool.inputSchema.k # "absent" THEN tool.inputSchema
    ELSE IF tool.input_schema.k # "absent" THEN tool.input_schema
    ELSE IF tool.parameters.k # "absent" THEN tool.parameters
    ELSE SchemaEmpty

\* if params.get("type") == "object" and "properties" not in params
EnsureProperties(p) ==
    IF p.type = "object" /\ ~p.props THEN [p EXCEPT !.props = TRUE] ELSE p

\* main.py:1552-1564
RepairParams(tool) ==
    LET params == LookupSchema(tool)
        typed == IF Falsy(params) THEN DefaultParams
                 ELSE IF params.k # "dict" THEN DefaultParams
                 ELSE IF params.type = "none"
                      THEN [params EXCEPT !.type = "object"]
                 ELSE params
    IN  EnsureProperties(typed)

\* main.py:1527-1533, the branch taken when the first descriptor of the
\* catalog carries an inputSchema key.
RepairParamsDirect(tool) ==
    LET params == IF tool.inputSchema.k = "absent" THEN SchemaEmpty
                  ELSE tool.inputSchema
        typed == IF params.k # "dict" THEN DefaultParams
                 ELSE IF params.type = "none"
                      THEN [params EXCEPT !.type = "object"]
                 ELSE params
    IN  EnsureProperties(typed)

\* tool.get('name', 'unknown_tool')
NameOf(tool) == IF tool.nameKind = "absent" THEN unknown_tool ELSE tool.name

\* ''.join(c if c.isalnum() or c in '_-' else '_' for c in tool_name)
CleanName(tool_name) ==
    SubSeq([i \in 1..Len(tool_name) |->
               IF IsAlnum(tool_name[i]) \/ tool_name[i] \in {"_", "-"}
               THEN tool_name[i] ELSE "_"],
           1, Len(tool_name))

\* server.replace('-', '_')
CleanServer(server) == Replace(server, "-", "_")

\* full_name = f"{clean_server}__{clean_name}", cut to 128 characters.
FullName(server, tool_name) ==
    Take(CleanServer(server) \o Sep \o CleanName(tool_name), MaxNameLen)

\* The entry appended to tools for one descriptor.  server and raw are the
\* origin of the entry: the code keeps the server in the description
\* (f"[{server}] ...") and the raw name is what the endpoint listed.
ToolDef(server, tool, direct) ==
    [fmt |-> "function",
     name |-> FullName(server, NameOf(tool)),
     parameters |-> IF direct THEN RepairParamsDirect(tool)
                    ELSE RepairParams(tool),
     server |-> server,
     raw |-> NameOf(tool)]

\* A descriptor on which the loop body raises: tool.get on a value that is
\* no dict, or iterating a name that is None.
Raises(tool) == ~tool.isdict \/ tool.nameKind = "null"

\* The loop over the descriptors from position i on: the entries it
\* appends before the first descriptor on which the body raises.
ProcessFrom(server, server_tools, direct, i) ==
    LET raising == {k \in i..Len(server_tools) : Raises(server_tools[k])}
        stop == IF raising = {} THEN Len(server_tools) + 1
                ELSE CHOOSE k \in raising : \A j \in raising : k <= j
    IN  [defs |-> SubSeq([k \in DOMAIN server_tools |->
                             ToolDef(server, server_tools[k], direct)],
                         i, stop - 1),
         raised |-> raising # {}]

\* main.py:1495-1594: the entries one server adds to tools, and whether the
\* loop ended in an exception (caught at 1595, which moves to the next
\* server and keeps what was appended before).
ProcessTools(server, server_tools) ==
    IF Len(server_tools) = 0 THEN [defs |-> <<>>, raised |-> FALSE]
    ELSE IF ~server_tools[1].isdict THEN [defs |-> <<>>, raised |-> TRUE]
    ELSE ProcessFrom(server, server_tools,
                     server_tools[1].inputSchema.k # "absent", 1)

\* main.py:1242-1248: tools front-loaded in the initialize result are
\* appended as {name, description, input_schema, server}, without the
\* "function" wrapper.
EmbeddedDef(server, tool) ==
    [fmt |-> "raw",
     name |-> IF tool.nameKind = "str" THEN tool.name ELSE <<>>,
     parameters |-> IF tool.inputSchema.k # "absent" THEN tool.inputSchema
                    ELSE IF tool.input_schema.k # "absent"
                         THEN tool.input_schema
                    ELSE SchemaEmpty,
     server |-> server,
     raw |-> IF tool.nameKind = "str" THEN tool.name ELSE <<>>]

RECURSIVE EmbeddedFrom(_, _, _)
EmbeddedFrom(server, server_tools, i) ==
    IF i > Len(server_tools) THEN [defs |-> <<>>, raised |-> FALSE]
    ELSE IF ~server_tools[i].isdict THEN [defs |-> <<>>, raised |-> TRUE]
    ELSE LET rest == EmbeddedFrom(server, server_tools, i + 1)
         IN  [defs |-> <<EmbeddedDef(server, server_tools[i])>> \o rest.defs,
              raised |-> rest.raised]

\* tool["function"]["name"] raises KeyError on an entry without "function".
HasUnwrapped(tools) == \E i \in 1..Len(tools) : tools[i].fmt # "function"

\* The loop over tools from position i on, with the names seen before:
\* an entry is kept when its name is not among them and stands at no
\* position from i up to its own.
DedupFrom(tools, i, seen_names) ==
    LET positions == [k \in 1..(Len(tools) - i + 1) |-> i + k - 1]
        Kept(k) == /\ tools[k].name \notin seen_names
                   /\ \A j \in i..(k - 1) : tools[j].name # tools[k].name
        kept == SelectSeq(positions, Kept)
    IN  SubSeq([n \in DOMAIN kept |-> tools[kept[n]]], 1, Len(kept))

\* A deduplication that keeps the last tool of a name, not the first.
DedupKeepLast(tools) ==
    LET Last(i) == \A j \in (i + 1)..Len(tools) : tools[j].name # tools[i].name
        F[i \in 0..Len(tools)] ==
            IF i = 0 THEN <<>>
            ELSE IF Last(i) THEN Append(F[i - 1], tools[i]) ELSE F[i - 1]
    IN  F[Len(tools)]

\* main.py:1599-1610
Dedup(tools) == DedupFrom(tools, 1, {})

\* main.py:1613-1626
BudgetFirst(tools) == Take(tools, max_tools)

Budget(tools) ==
    IF Len(tools) > max_tools
    THEN LET IsComposioTool(t) == StartsWith(t.name, composio)
             IsOtherTool(t) == ~StartsWith(t.name, composio)
             composio_tools == SelectSeq(tools, IsComposioTool)
             other_tools == SelectSeq(tools, IsOtherTool)
             kept == Take(composio_tools, max_tools)
         IN  IF Len(kept) < max_tools
             THEN kept \o Take(other_tools, max_tools - Len(kept))
             ELSE kept
    ELSE tools

(***************************************************************************)
(* Routing of a model-issued call (main.py:1781-1802).                     *)
(***************************************************************************)
\* full_name.split("__", 1), or ("unknown", full_name) without a "__".
SplitName(full_name) ==
    IF SepPositions(full_name) # {}
    THEN LET i == Min(SepPositions(full_name))
         IN  [server_name |-> SubSeq(full_name, 1, i - 1),
              tool_name |-> SubSeq(full_name, i + 2, Len(full_name))]
    ELSE [server_name |-> unknown, tool_name |-> full_name]

\* The underscore-to-hyphen repair of the endpoint segment.
ActualServer(server_name, registered) ==
    IF server_name \in registered THEN server_name
    ELSE IF Replace(server_name, "_", "-") \in registered
         THEN Replace(server_name, "_", "-")
    ELSE server_name

(***************************************************************************)
(* The environment: endpoint ids, URLs, catalogs and HTTP responses.       *)
(***************************************************************************)
\* "composio-g": the id add_composio_mcp_server gives a connector
\* (f"composio-{app_name}", main.py:328).
SrvConnector == composio \o <<"-", "g">>
\* "composio_g": an id quick_add_server can take from a URL path.
SrvPlain == composio \o <<"_", "g">>
\* "m": an id that is not registered as a remote endpoint.
SrvLocal == <<"m">>

ServerIds == {SrvConnector, SrvPlain, SrvLocal}

\* URLs, as sequences of labels.
UrlConnector == <<"https", "mcp", "composio", "dev", "mcp">>
UrlPlain == <<"https", "tools", "example", "mcp">>

\* "composio" in config.endpoint
IsComposio(endpoint) == \E i \in 1..Len(endpoint) : endpoint[i] = "composio"

\* RemoteServerConfig (main.py:2094-2098); of headers, the two entries the
\* handler adds: Mcp-Session-Id and Mcp-Protocol-Version ("none": no entry).
Config(endpoint) == [endpoint |-> endpoint, session |-> "none", protocol |-> "none"]

Registries ==
    { (SrvConnector :> Config(UrlConnector)),
      (SrvConnector :> Config(UrlConnector)) @@ (SrvPlain :> Config(UrlPlain)),
      (SrvPlain :> Config(UrlPlain)) }

PING == <<"P", "I", "N", "G">>
\* Two names that differ only in a character outside [A-Za-z0-9_-].
NameDot == <<"a", ".", "b">>
NameUnderscore == <<"a", "_", "b">>
\* With a ten-character endpoint id and the separator, a name of 116
\* characters gives a qualified name of exactly 128.
NameFits == Pad(MaxNameLen - 12, "a")
NameLongX == Pad(MaxNameLen - 12, "a") \o <<"x">>
NameLongY == Pad(MaxNameLen - 12, "a") \o <<"y">>

CatPing == <<Tool(PING, SchemaAbsent)>>
CatMix ==
    <<Desc("str", NameDot, SchemaAbsent, SchemaString, SchemaAbsent),
      Desc("str", NameUnderscore, SchemaNull, SchemaAbsent, SchemaAbsent),
      Desc("absent", <<>>, SchemaAbsent, SchemaAbsent, SchemaNonDict)>>
CatLong ==
    <<Tool(NameLongX, SchemaObjectNoProps),
      Tool(NameLongY, SchemaEmpty),
      Tool(NameFits, SchemaString)>>
\* A name with a letter outside ASCII.
NameAccent == <<"c", "a", "f", EAcute>>
CatAccent == <<Tool(NameAccent, SchemaObject)>>

Catalogs == {CatPing, CatMix, CatLong, CatAccent}

\* Catalogs with a malformed descriptor between two well-formed ones: an
\* entry that is no object, and an object whose name is null.
CatNonDict ==
    <<Tool(PING, SchemaAbsent), NonDictEntry, Tool(NameUnderscore, SchemaAbsent)>>
CatNullName ==
    <<Tool(PING, SchemaAbsent),
      Desc("null", <<>>, SchemaAbsent, SchemaAbsent, SchemaAbsent),
      Tool(NameUnderscore, SchemaAbsent)>>

\* A catalog of one tool more than the tool budget, with the two-letter
\* names aa, ab, ac and so on.
Letters == <<"a", "b", "c", "d", "e", "f", "g", "i">>
NameNumber(k) ==
    <<Letters[((k - 1) \div Len(Letters)) + 1],
      Letters[((k - 1) % Len(Letters)) + 1]>>
CatBig ==
    SubSeq([k \in 1..(max_tools + 1) |-> Tool(NameNumber(k), SchemaAbsent)],
           1, max_tools + 1)

\* A JSON-RPC frame: a result (with or without a tools array, under
\* result.tools or result.serverInfo.tools, and with or without an echoed
\* protocolVersion), an error with a code, or text that is no JSON.
Frame(kind, code, toolsAt, tools, version) ==
    [kind |-> kind, code |-> code, toolsAt |-> toolsAt, tools |-> tools,
     version |-> version]

ResultFrame(version) == Frame("result", 0, "none", <<>>, version)
ToolsFrame(tools) == Frame("result", 0, "tools", tools, "none")
ServerInfoFrame(tools) == Frame("result", 0, "serverInfo", tools, "none")
ErrorFrame(code) == Frame("error", code, "none", <<>>, "none")
Garbage == Frame("garbage", 0, "none", <<>>, "none")

\* An HTTP response: status, content type ("json" or "sse"), the body as
\* its frames (one for a JSON body, one per "data: " line of an event
\* stream) and the session header ("none": absent).
Resp(status, ctype, frames, session) ==
    [status |-> status, ctype |-> ctype, frames |-> frames, session |-> session]

NoResp == Resp(0, "none", <<>>, "none")

\* response.json(): raises unless the body is JSON text.
JsonRaises(resp) == resp.ctype # "json" \/ resp.frames[1].kind = "garbage"

\* The first "data: " frame that parses, in an event stream.
RECURSIVE FirstParsed(_, _)
FirstParsed(frames, i) ==
    IF i > Len(frames) THEN Garbage
    ELSE IF frames[i].kind # "garbage" THEN frames[i]
    ELSE FirstParsed(frames, i + 1)

\* What the initialize response yields when it is an event stream
\* (main.py:1163-1209): every frame that parses is looked at, in order,
\* until one carries tools.
RECURSIVE ParseInitSse(_, _, _)
ParseInitSse(frames, i, version) ==
    IF i > Len(frames) THEN [server_tools |-> <<>>, version |-> version]
    ELSE IF frames[i].kind = "result"
         THEN LET v == IF frames[i].version # "none" THEN frames[i].version
                       ELSE version
              IN  IF frames[i].toolsAt \in {"tools", "serverInfo"}
                  THEN [server_tools |-> frames[i].tools, version |-> v]
                  ELSE ParseInitSse(frames, i + 1, v)
    ELSE ParseInitSse(frames, i + 1, version)

\* What the initialize response yields (main.py:1157-1236): the embedded
\* tools and the protocol version the result echoes ("none": not echoed).
ParseInit(init_response) ==
    IF init_response.ctype = "sse"
    THEN ParseInitSse(init_response.frames, 1, "none")
    ELSE IF JsonRaises(init_response)
         THEN [server_tools |-> <<>>, version |-> "none"]
    ELSE LET f == init_response.frames[1]
         IN  IF f.kind = "result"
             THEN [server_tools |-> IF f.toolsAt = "tools" THEN f.tools ELSE <<>>,
                   version |-> f.version]
             ELSE [server_tools |-> <<>>, version |-> "none"]

\* The frame the code reads a listing response as, while it looks for the
\* method-not-found code and for a working alternative (main.py:1302-1308,
\* 1338-1343): the JSON body, or the first "data: " line of a stream.
\* Garbage stands for the exception json.loads raises.
ProbeFrame(resp) ==
    IF resp.ctype = "json" THEN resp.frames[1]
    ELSE IF Len(resp.frames) > 0 THEN resp.frames[1]
    ELSE Garbage

\* main.py:1300-1310
TriesAlternatives(tool_response) ==
    /\ tool_response.status = 200
    /\ ProbeFrame(tool_response).kind = "error"
    /\ ProbeFrame(tool_response).code = MethodNotFound

\* main.py:1345
AlternativeWorks(alt_response) ==
    /\ ProbeFrame(alt_response).kind = "result"
    /\ ProbeFrame(alt_response).toolsAt = "tools"

\* main.py:1358-1359, 1368-1369, 1377-1378
TriesNext(tool_response) ==
    /\ ~JsonRaises(tool_response)
    /\ tool_response.frames[1].kind = "error"
    /\ tool_response.frames[1].code = MethodNotFound

\* main.py:1314-1321
alternative_methods ==
    <<"composio/tools/list", "composio.tools.list", "getTools", "get_tools",
      "listTools", "list_tools">>

\* main.py:1365, 1374, 1383
chain_methods == <<"mcp/list_tools", "listTools", "list">>

\* main.py:1415-1491: the catalog read from the last listing response.
\* Only a vendor endpoint's response is read; for any other endpoint
\* server_tools keeps the empty list of line 1093.
ExtractTools(tool_response, is_composio) ==
    IF tool_response.status >= 400 THEN <<>>
    ELSE IF is_composio
         THEN LET result == IF tool_response.ctype = "sse"
                            THEN FirstParsed(tool_response.frames, 1)
                            ELSE IF JsonRaises(tool_response) THEN Garbage
                            ELSE tool_response.frames[1]
              IN  IF result.kind = "result" /\ result.toolsAt = "tools"
                  THEN result.tools
                  ELSE <<>>
    ELSE <<>>

\* The responses an endpoint gives to initialize.
InitResponses ==
    { Resp(500, "json", <<ErrorFrame(-32000)>>, "none"),
      Resp(200, "json", <<ResultFrame("none")>>, "none"),
      Resp(200, "json", <<ResultFrame("v1")>>, "s1"),
      Resp(200, "sse", <<Garbage, ResultFrame("v1"), ServerInfoFrame(CatPing)>>, "s2") }
    \cup { Resp(200, "json", <<ToolsFrame(c)>>, "none") : c \in Catalogs }

\* The responses an endpoint gives to a listing method.
ListResponses ==
    { Resp(200, "json", <<ErrorFrame(MethodNotFound)>>, "none"),
      Resp(200, "sse", <<ErrorFrame(MethodNotFound)>>, "none"),
      Resp(404, "json", <<ErrorFrame(MethodNotFound)>>, "none"),
      Resp(200, "json", <<ErrorFrame(-32000)>>, "none"),
      Resp(200, "json", <<ResultFrame("none")>>, "none"),
      Resp(200, "sse", <<Garbage, ToolsFrame(CatPing), ToolsFrame(CatMix)>>, "none"),
      Resp(200, "sse", <<Garbage>>, "none") }
    \cup { Resp(200, "json", <<ToolsFrame(c)>>, "none") : c \in Catalogs }

(***************************************************************************)
(* State.                                                                  *)
(***************************************************************************)
VARIABLES
    remote_mcp_servers, \* the process-wide registry of remote endpoints
    user_api_keys,      \* providers for which a key is stored
    pc,                 \* where the connection handler stands
    turn,               \* chat requests received on the connection
    available_servers,  \* the request's endpoint ids
    model,              \* the request's model
    srv,                \* position of the discovery loop in available_servers
    server_tools,       \* the handler's local of that name
    loc,                \* the other locals of one endpoint's discovery
    tools,              \* the handler's local of that name
    discovered,         \* tools as it stood before deduplication
    llm_messages,       \* the conversation
    attempt,            \* the retry loop's attempt
    response,           \* the completion result being handled
    tool_round,         \* the handler's local of that name
    tc,                 \* position of the execution loop in tool_calls
    events,             \* events written to the connection in this turn
    rpcs,               \* requests sent to endpoints in the current phase
    submissions,        \* completion calls of this turn
    peer,               \* the handler of a second connection, in discovery
    inits,              \* what initialize returned, per endpoint, this turn
    listed,             \* the endpoints a catalog was read from, in any turn
    supplied,           \* providers whose key this connection's requests gave
    mcp_server_mappings, \* the process-wide "{user_id}:{app_name}" -> server id
    adds,               \* the requests to add a connector endpoint, as they came
    created,            \* the upstream calls that create a connector server
    tool_use            \* a run of handle_tool_use_response, tool_handler.py

vars ==
    <<remote_mcp_servers, user_api_keys, pc, turn, available_servers, model,
      srv, server_tools, loc, tools, discovered, llm_messages, attempt,
      response, tool_round, tc, events, rpcs, submissions, peer,
      inits, listed, supplied, mcp_server_mappings, adds, created,
      tool_use>>

\* What the requests to add a connector endpoint read and write, beside
\* the registry.
registration == <<mcp_server_mappings, adds, created>>

Models == {"anthropic/claude", "ollama/llama"}

\* The models of every provider that needs a key, and a local one.
ProviderModels == Models \cup {"openai/gpt-4", "mistral/small"}

\* model.split("/")[0]
Provider(m) ==
    CASE m = "anthropic/claude" -> "anthropic"
      [] m = "openai/gpt-4" -> "openai"
      [] m = "mistral/small" -> "mistral"
      [] OTHER -> "ollama"

\* main.py:1056-1060
SupportsTools(m) == m \in {"anthropic/claude", "openai/gpt-4"}

\* A check that asks a key of one provider only.
NeedsKeyAnthropic(m) == Provider(m) = "anthropic"

\* main.py:1046
NeedsKey(m) == Provider(m) \in {"anthropic", "openai", "mistral"}

RECURSIVE SeqsUpTo(_, _)
SeqsUpTo(S, n) ==
    IF n = 0 THEN {<<>>}
    ELSE LET shorter == SeqsUpTo(S, n - 1)
         IN  shorter \cup {Append(q, x) : q \in shorter, x \in S}

ServerSeqs == SeqsUpTo(ServerIds, MaxServers)

\* A request sent to an endpoint: the method, the endpoint id, the
\* Mcp-Session-Id and Mcp-Protocol-Version headers it carries and, for
\* tools/call, the tool name and the HTTP status of the reply (0 when the
\* request raised or the status is not kept); for the request of a tool
\* call also the number of events the connection had been sent in the
\* turn when the request went out.
Rpc(method, server, session, protocol, name) ==
    [method |-> method, server |-> server, session |-> session,
     protocol |-> protocol, name |-> name, status |-> 0, seen |-> 0]

\* An event written to the live connection: its type, the call id a
\* tool_call or tool_result event belongs to (0 otherwise) and what a
\* message or error event says; wait is the number of seconds a retry
\* status announces (0 in every other event).
Ev(type, id, text) ==
    [type |-> type, id |-> id, text |-> text, wait |-> 0, server |-> <<>>]

NoLoc ==
    [headers |-> [session |-> "none", protocol |-> "none"],
     mcp_session_id |-> "none",
     negotiated_protocol |-> "none",
     init_response |-> NoResp,
     tool_response |-> NoResp,
     alt |-> 0,
     embedded |-> FALSE]

NoResponse == [choices |-> FALSE, content |-> "none", tool_calls |-> <<>>]

\* A message of the conversation: its role, the ids of the calls an
\* assistant message requests, and for a tool message the id it answers
\* and whether its content is a result or an error.
Message(role, id, calls, result) ==
    [role |-> role, id |-> id, calls |-> calls, result |-> result]

UserMessage == Message("user", 0, <<>>, "none")

\* The handler of a second connection: where it stands in the discovery
\* of one endpoint ("idle", "init", "notify", "done"), the endpoint, its
\* locals headers, mcp_session_id and negotiated_protocol, the initialize
\* response it got, the requests it sent, and whether the first handler
\* was negotiating the same endpoint when it began.
NoPeer ==
    [pc |-> "idle", server |-> <<>>,
     headers |-> [session |-> "none", protocol |-> "none"],
     mcp_session_id |-> "none", negotiated_protocol |-> "none",
     init_response |-> NoResp, rpcs |-> <<>>, concurrent |-> FALSE]

\* A run of handle_tool_use_response: where it stands ("idle": not called,
\* "create": about to ask the model for the response that follows the
\* tool results, "done": returned), whether an Anthropic client was
\* passed, how many invocations of the function are nested, how many
\* follow-up model calls were made, the types of the events sent and the
\* number of messages appended to llm_messages.
NoToolUse ==
    [pc |-> "idle", anthropic_client |-> FALSE, depth |-> 0, follow_ups |-> 0,
     sent |-> <<>>, appended |-> 0]

\* The users that add connector endpoints, and the apps they add.
UserIds == {"A", "B"}
AppNames == {<<"g">>}

\* main.py:327  server_name = f"composio-{request.app_name}"
ServerName(app_name) == composio \o <<"-">> \o app_name

\* main.py:328  mapping_key = f"{request.user_id}:{request.app_name}"
MappingKey(user_id, app_name) == <<user_id, ":">> \o app_name

MappingKeys == {MappingKey(u, a) : u \in UserIds, a \in AppNames}

Init ==
    /\ remote_mcp_servers \in Registries
    /\ user_api_keys = {}
    /\ supplied = {}
    /\ mcp_server_mappings = [key \in MappingKeys |-> "none"]
    /\ adds = <<>>
    /\ created = <<>>
    /\ tool_use = NoToolUse
    /\ pc = "recv"
    /\ turn = 0
    /\ available_servers = <<>>
    /\ model = "anthropic/claude"
    /\ srv = 1
    /\ server_tools = <<>>
    /\ loc = NoLoc
    /\ tools = <<>>
    /\ discovered = <<>>
    /\ llm_messages = <<>>
    /\ attempt = 0
    /\ response = NoResponse
    /\ tool_round = 0
    /\ tc = 1
    /\ events = <<>>
    /\ rpcs = <<>>
    /\ submissions = <<>>
    /\ peer = NoPeer
    /\ inits = <<>>
    /\ listed = {}

(***************************************************************************)
(* The inputs of the handler.                                              *)
(***************************************************************************)
\* An exception of the completion call: whether the provider is
\* overloaded, and whether str(e) holds "529" or "overloaded".
Error(overloaded, text) == [overloaded |-> overloaded, text |-> text]

\* An overload (status 529, "Overloaded"), an error whose text holds
\* neither mark, and an error that is no overload and whose text holds
\* "529" among other digits ("prompt is too long: 205291 tokens").
Errors ==
    {Error(TRUE, "Error code: 529 overloaded"),
     Error(FALSE, "other"),
     Error(FALSE, "205291 tokens")}

\* The first two of them.
FewErrors == {Error(TRUE, "Error code: 529 overloaded"), Error(FALSE, "other")}

\* The responses an endpoint gives to tools/call.
CallResponses ==
    { Resp(200, "json", <<ResultFrame("none")>>, "none"),
      Resp(200, "json", <<ErrorFrame(-32000)>>, "none"),
      Resp(500, "json", <<ResultFrame("none")>>, "none"),
      Resp(200, "sse", <<Garbage, ResultFrame("none"), ErrorFrame(-32000)>>, "none"),
      Resp(200, "sse", <<Garbage>>, "none") }

\* Every request: any selection of ids, either model, with or without a
\* key.
AllRequests ==
    [available_servers : ServerSeqs, model : Models,
     api_keys : SUBSET {"anthropic"}]

\* Requests that select nothing, one id, or the connector and a second id.
Requests ==
    [available_servers : {q \in ServerSeqs : Len(q) <= 1 \/ q[1] = SrvConnector},
     model : Models, api_keys : SUBSET {"anthropic"}]

\* Requests that select at most the connector.
RetryRequests ==
    [available_servers : {<<>>, <<SrvConnector>>},
     model : Models, api_keys : SUBSET {"anthropic"}]

\* Requests that select the connector, alone or with a server of the
\* local daemon before or after it.
BudgetRequests ==
    [available_servers : {<<SrvConnector>>, <<SrvConnector, SrvLocal>>,
                          <<SrvLocal, SrvConnector>>},
     model : {"anthropic/claude"}, api_keys : {{"anthropic"}}]

\* The request that selects the connector and supplies the key.
SharedRequests ==
    [available_servers : {<<SrvConnector>>},
     model : {"anthropic/claude"}, api_keys : {{"anthropic"}}]

\* Requests that select the connector, for a model of any provider, with
\* no key or the key of one provider.
ProviderRequests ==
    [available_servers : {<<SrvConnector>>}, model : ProviderModels,
     api_keys : {{}, {"anthropic"}, {"openai"}, {"mistral"}}]

\* The initialize response that gives a session and embeds no catalog.
SharedInitResponses == { Resp(200, "json", <<ResultFrame("v1")>>, "s1") }

\* A listing method is unknown to the endpoint, or lists one tool.
SharedListResponses ==
    { Resp(200, "json", <<ErrorFrame(MethodNotFound)>>, "none"),
      Resp(200, "json", <<ToolsFrame(CatPing)>>, "none") }

\* A few of the responses to initialize.
FewInitResponses ==
    { Resp(500, "json", <<ErrorFrame(-32000)>>, "none"),
      Resp(200, "json", <<ResultFrame("v1")>>, "s1"),
      Resp(200, "json", <<ToolsFrame(CatPing)>>, "none") }

\* The responses to the initialize of a second connection: the session
\* given before, or a new one.
PeerInitResponses ==
    { Resp(500, "json", <<ErrorFrame(-32000)>>, "none"),
      Resp(200, "json", <<ResultFrame("v1")>>, "s1"),
      Resp(200, "json", <<ResultFrame("v1")>>, "s2") }

\* A few of the responses to a listing method.
FewListResponses ==
    { Resp(200, "json", <<ErrorFrame(MethodNotFound)>>, "none") }
    \cup { Resp(200, "json", <<ToolsFrame(c)>>, "none") : c \in {CatPing, CatMix} }

\* Listings of one tool or of more tools than the budget.
BigListResponses ==
    { Resp(200, "json", <<ErrorFrame(MethodNotFound)>>, "none") }
    \cup { Resp(200, "json", <<ToolsFrame(c)>>, "none") : c \in {CatPing, CatBig} }

\* Listings whose catalog holds a malformed descriptor.
MalformedListResponses ==
    { Resp(200, "json", <<ErrorFrame(MethodNotFound)>>, "none") }
    \cup { Resp(200, "json", <<ToolsFrame(c)>>, "none") :
              c \in {CatPing, CatNonDict, CatNullName} }

\* A tools/call answered with a result, or rejected with HTTP 401 and a
\* JSON-RPC error saying that the session has expired.
ExpiredCallResponses ==
    { Resp(200, "json", <<ResultFrame("none")>>, "none"),
      Resp(401, "json", <<ErrorFrame(-32001)>>, "none") }

\* The inputs an action draws from, by name: the requests a connection
\* receives, the responses an endpoint gives, the errors a completion call
\* raises.
Inputs(name) ==
    CASE name = "AllRequests" -> AllRequests
      [] name = "Requests" -> Requests
      [] name = "RetryRequests" -> RetryRequests
      [] name = "BudgetRequests" -> BudgetRequests
      [] name = "SharedRequests" -> SharedRequests
      [] name = "ProviderRequests" -> ProviderRequests
      [] name = "SharedInitResponses" -> SharedInitResponses
      [] name = "SharedListResponses" -> SharedListResponses
      [] name = "InitResponses" -> InitResponses
      [] name = "FewInitResponses" -> FewInitResponses
      [] name = "PeerInitResponses" -> PeerInitResponses
      [] name = "ListResponses" -> ListResponses
      [] name = "FewListResponses" -> FewListResponses
      [] name = "BigListResponses" -> BigListResponses
      [] name = "MalformedListResponses" -> MalformedListResponses
      [] name = "CallResponses" -> CallResponses
      [] name = "ExpiredCallResponses" -> ExpiredCallResponses
      [] name = "Errors" -> Errors
      [] name = "FewErrors" -> FewErrors

(***************************************************************************)
(* The connection handler, main.py:1014-2048.                              *)
(***************************************************************************)
\* main.py:1021-1062: a chat request arrives.  Without the key its
\* provider needs the handler answers with an error and waits again.
\* Every local but server_tools is assigned before it is read in a turn;
\* those locals are cleared here.
ReceiveOf(Received) ==
    /\ pc = "recv"
    /\ UNCHANGED <<peer, listed, registration, tool_use>>
    /\ inits' = <<>>
    /\ turn < MaxTurns
    /\ \E request \in Inputs(Received) :
        LET servers == request.available_servers
            m == request.model
            keys == user_api_keys \cup request.api_keys
        IN  /\ user_api_keys' = keys
            /\ supplied' = supplied \cup request.api_keys
            /\ available_servers' = servers
            /\ model' = m
            /\ turn' = turn + 1
            /\ rpcs' = <<>>
            /\ submissions' = <<>>
            /\ IF NeedsKey(m) /\ Provider(m) \notin keys
               THEN /\ events' = <<Ev("error", 0, "key required")>>
                    /\ pc' = "recv"
                    /\ tools' = <<>>
                    /\ discovered' = <<>>
                    /\ llm_messages' = <<>>
                    /\ srv' = 1
               ELSE /\ events' = <<>>
                    /\ pc' = "server"
                    /\ tools' = <<>>
                    /\ discovered' = <<>>
                    /\ llm_messages' = <<UserMessage>>
                    /\ srv' = IF Len(servers) > 0 /\ SupportsTools(m)
                              THEN 1 ELSE Len(servers) + 1
    /\ loc' = NoLoc
    /\ attempt' = 0
    /\ response' = NoResponse
    /\ tool_round' = 0
    /\ tc' = 1
    /\ UNCHANGED <<remote_mcp_servers, server_tools>>

\* main.py:1063-1095 and, for an id that is no remote endpoint, 1493-1594:
\* the loop body finds server_tools as the previous iteration (or the
\* previous turn) left it.  Before its first assignment the name is unbound
\* and line 1493 raises into the handler of line 1595, which has the effect
\* of an empty list.
StartServer ==
    /\ pc = "server"
    /\ UNCHANGED <<peer, inits, listed, supplied, registration, tool_use>>
    /\ srv <= Len(available_servers)
    /\ LET server == available_servers[srv]
       IN  IF server \in DOMAIN remote_mcp_servers
           THEN LET config == remote_mcp_servers[server]
                IN  /\ loc' = [NoLoc EXCEPT
                                 !.headers = [session |-> config.session,
                                              protocol |-> config.protocol],
                                 !.negotiated_protocol = "2025-03-26"]
                    /\ rpcs' = IF IsComposio(config.endpoint)
                               THEN <<Rpc("GET", server, config.session,
                                          config.protocol, <<>>)>>
                               ELSE <<>>
                    /\ server_tools' = <<>>
                    /\ pc' = "init"
                    /\ UNCHANGED <<srv, tools>>
           ELSE /\ tools' = tools \o ProcessTools(server, server_tools).defs
                /\ srv' = srv + 1
                /\ rpcs' = <<>>
                /\ UNCHANGED <<pc, loc, server_tools>>
    /\ UNCHANGED <<remote_mcp_servers, user_api_keys, turn, available_servers,
                   model, discovered, llm_messages, attempt, response,
                   tool_round, tc, events, submissions>>

\* What the initialize request to an endpoint came to: the response, or
\* NoResp when the request raised or timed out.
Outcome(server, init_response) ==
    [server |-> server, init_response |-> init_response]

\* main.py:1100-1144: the initialize request.  A session header of the
\* response is stored in the registry whatever the status; with status 200
\* the handler goes on to notifications/initialized, with any other status
\* straight to tools/list.  An exception leaves the endpoint (line 1595).
InitializeOf(Responses) ==
    /\ pc = "init"
    /\ UNCHANGED <<peer, listed, supplied, registration, tool_use>>
    /\ LET server == available_servers[srv]
           sent == Rpc("initialize", server, loc.headers.session,
                       loc.headers.protocol, <<>>)
       IN  /\ rpcs' = Append(rpcs, sent)
           /\ \/ /\ pc' = "server"
                 /\ srv' = srv + 1
                 /\ inits' = Append(inits, Outcome(server, NoResp))
                 /\ UNCHANGED <<loc, remote_mcp_servers>>
              \/ \E init_response \in Inputs(Responses) :
                    /\ inits' = Append(inits, Outcome(server, init_response))
                    /\ loc' = [loc EXCEPT
                                 !.init_response = init_response,
                                 !.mcp_session_id = init_response.session]
                    /\ remote_mcp_servers' =
                          IF init_response.session # "none"
                          THEN [remote_mcp_servers EXCEPT
                                  ![server].session = init_response.session]
                          ELSE remote_mcp_servers
                    /\ pc' = IF init_response.status = 200 THEN "notify"
                             ELSE "list"
                    /\ srv' = srv
    /\ UNCHANGED <<user_api_keys, turn, available_servers, model, server_tools,
                   tools, discovered, llm_messages, attempt, response,
                   tool_round, tc, events, submissions>>

\* The visit of an endpoint ended with a catalog read from it, embedded in
\* the initialize result or listed.
RecordListed ==
    listed' = IF srv' > srv /\ server_tools' # <<>>
              THEN listed \cup {available_servers[srv]}
              ELSE listed

\* main.py:1145-1251: notifications/initialized is sent with the headers of
\* initialize, then the initialize response is read.  Tools embedded in it
\* are appended to tools as they are and the endpoint is done; otherwise
\* tools/list follows.  An exception of the request leaves the endpoint.
Notify ==
    /\ pc = "notify"
    /\ UNCHANGED <<peer, inits, supplied, registration, tool_use>>
    /\ LET server == available_servers[srv]
           sent == Rpc("notifications/initialized", server,
                       loc.headers.session, loc.headers.protocol, <<>>)
           parsed == ParseInit(loc.init_response)
           echoed == parsed.version # "none"
       IN  /\ rpcs' = Append(rpcs, sent)
           /\ \/ /\ pc' = "server"
                 /\ srv' = srv + 1
                 /\ UNCHANGED <<loc, remote_mcp_servers, server_tools, tools>>
              \/ /\ remote_mcp_servers' =
                       IF echoed
                       THEN [remote_mcp_servers EXCEPT
                               ![server].protocol = parsed.version]
                       ELSE remote_mcp_servers
                 /\ server_tools' = parsed.server_tools
                 /\ loc' = [loc EXCEPT
                              !.negotiated_protocol =
                                  IF echoed THEN parsed.version ELSE @,
                              !.embedded = Len(parsed.server_tools) > 0]
                 /\ IF Len(parsed.server_tools) > 0
                    THEN /\ tools' = tools \o
                                EmbeddedFrom(server, parsed.server_tools, 1).defs
                         /\ pc' = "server"
                         /\ srv' = srv + 1
                    ELSE /\ pc' = "list"
                         /\ UNCHANGED <<srv, tools>>
    /\ UNCHANGED <<user_api_keys, turn, available_servers, model, discovered,
                   llm_messages, attempt, response, tool_round, tc, events,
                   submissions>>
    /\ RecordListed

\* The headers of a listing request (main.py:1256-1265).
ListRpc(method, server) ==
    Rpc(method, server,
        IF loc.mcp_session_id # "none" THEN loc.mcp_session_id
        ELSE loc.headers.session,
        loc.negotiated_protocol, <<>>)

\* main.py:1415-1594: the catalog is read from the last listing response
\* and its tools are appended to tools; the loop moves to the next id.
FinishListing(tool_response) ==
    LET server == available_servers[srv]
        is_composio == IsComposio(remote_mcp_servers[server].endpoint)
        catalog == ExtractTools(tool_response, is_composio)
    IN  /\ server_tools' = catalog
        /\ tools' = tools \o ProcessTools(server, catalog).defs
        /\ loc' = [loc EXCEPT !.tool_response = tool_response]
        /\ srv' = srv + 1
        /\ pc' = "server"

\* main.py:1253-1310: the canonical tools/list request (15 s timeout).  A
\* timeout or an exception leaves the endpoint without tools.
ListToolsOf(Responses) ==
    /\ pc = "list"
    /\ UNCHANGED <<peer, inits, supplied, registration, tool_use>>
    /\ rpcs' = Append(rpcs, ListRpc("tools/list", available_servers[srv]))
    /\ \/ /\ server_tools' = <<>>
          /\ srv' = srv + 1
          /\ pc' = "server"
          /\ UNCHANGED <<loc, tools>>
       \/ \E tool_response \in Inputs(Responses) :
             IF TriesAlternatives(tool_response)
             THEN /\ loc' = [loc EXCEPT !.tool_response = tool_response,
                                        !.alt = 1]
                  /\ pc' = "alt"
                  /\ UNCHANGED <<srv, server_tools, tools>>
             ELSE IF TriesNext(tool_response)
             THEN /\ loc' = [loc EXCEPT !.tool_response = tool_response,
                                        !.alt = 1]
                  /\ pc' = "chain"
                  /\ UNCHANGED <<srv, server_tools, tools>>
             ELSE FinishListing(tool_response)
    /\ UNCHANGED <<remote_mcp_servers, user_api_keys, turn, available_servers,
                   model, discovered, llm_messages, attempt, response,
                   tool_round, tc, events, submissions>>
    /\ RecordListed

\* main.py:1323-1354: one alternative method name.  The first response
\* with a result that has a tools key replaces tool_response and ends the
\* loop; an exception of the request ends the loop too (line 1353).
AltMethodOf(Responses) ==
    /\ pc = "alt"
    /\ UNCHANGED <<peer, inits, supplied, registration, tool_use>>
    /\ rpcs' = Append(rpcs, ListRpc(alternative_methods[loc.alt],
                                   available_servers[srv]))
    /\ LET LeaveLoop ==
               IF TriesNext(loc.tool_response)
               THEN /\ loc' = [loc EXCEPT !.alt = 1]
                    /\ pc' = "chain"
                    /\ UNCHANGED <<srv, server_tools, tools>>
               ELSE FinishListing(loc.tool_response)
       IN  \/ LeaveLoop
           \/ \E alt_response \in Inputs(Responses) :
                 IF AlternativeWorks(alt_response)
                 THEN FinishListing(alt_response)
                 ELSE IF loc.alt < Len(alternative_methods)
                 THEN /\ loc' = [loc EXCEPT !.alt = @ + 1]
                      /\ UNCHANGED <<pc, srv, server_tools, tools>>
                 ELSE LeaveLoop
    /\ UNCHANGED <<remote_mcp_servers, user_api_keys, turn, available_servers,
                   model, discovered, llm_messages, attempt, response,
                   tool_round, tc, events, submissions>>
    /\ RecordListed

\* main.py:1356-1386: mcp/list_tools, listTools, list, each tried while
\* the response before it is the JSON error "method not found".  An
\* exception is swallowed and leaves tool_response as it was.
ChainMethodOf(Responses) ==
    /\ pc = "chain"
    /\ UNCHANGED <<peer, inits, supplied, registration, tool_use>>
    /\ rpcs' = Append(rpcs, ListRpc(chain_methods[loc.alt],
                                   available_servers[srv]))
    /\ \/ FinishListing(loc.tool_response)
       \/ \E tool_response \in Inputs(Responses) :
             IF loc.alt < Len(chain_methods) /\ TriesNext(tool_response)
             THEN /\ loc' = [loc EXCEPT !.tool_response = tool_response,
                                        !.alt = @ + 1]
                  /\ UNCHANGED <<pc, srv, server_tools, tools>>
             ELSE FinishListing(tool_response)
    /\ UNCHANGED <<remote_mcp_servers, user_api_keys, turn, available_servers,
                   model, discovered, llm_messages, attempt, response,
                   tool_round, tc, events, submissions>>
    /\ RecordListed

\* main.py:1599-1657: deduplication, the budget, the status event.  The
\* Gmail system message (1634-1644) is added only for names that contain
\* "GMAIL"; no name of the model does.  tool["function"]["name"] raises on
\* an entry appended by line 1243; that exception reaches the handler of
\* line 2044, which reports it and ends the connection handler.  The
\* locals of discovery are not read again in the turn and are cleared.
BuildToolSet ==
    /\ pc = "server"
    /\ UNCHANGED <<peer, inits, listed, supplied, registration, tool_use>>
    /\ srv > Len(available_servers)
    /\ IF HasUnwrapped(tools)
       THEN /\ events' = Append(events, Ev("error", 0, "exception"))
            /\ pc' = "closed"
            /\ UNCHANGED <<tools, discovered, attempt>>
       ELSE /\ discovered' = tools
            /\ tools' = Budget(Dedup(tools))
            /\ events' = Append(events, Ev("status", 0, "using model"))
            /\ attempt' = 0
            /\ pc' = "complete"
    /\ UNCHANGED <<remote_mcp_servers, user_api_keys, turn, available_servers,
                   model, srv, server_tools, llm_messages, response,
                   tool_round, tc, submissions>>
    /\ loc' = NoLoc
    /\ rpcs' = <<>>

(***************************************************************************)
(* The completion boundary and the tool execution loop.                    *)
(***************************************************************************)
\* A name without "__": no endpoint can be read from it.
NameUnqualified == PING

\* The names the model may call: those of the tools offered and one that
\* was never offered.
CallNames(offered) == {offered[i].name : i \in 1..Len(offered)} \cup {NameUnqualified}

\* The sequences of names of one completion result: any one name, and
\* longer sequences over the first tool offered and the unqualified name.
CallNameSeqs(offered) ==
    {<<n>> : n \in CallNames(offered)}
    \cup {q \in SeqsUpTo(IF Len(offered) > 0
                         THEN {offered[1].name, NameUnqualified}
                         ELSE {NameUnqualified}, MaxCalls) : Len(q) > 1}

\* A completion result: whether it has choices, the text content of the
\* first choice ("text", "empty" for "", "none" for null) and its tool
\* calls.  The call ids of the n-th submission of a turn are 10n+1, 10n+2...
Completion(choices, content, tool_calls) ==
    [choices |-> choices, content |-> content, tool_calls |-> tool_calls]

Calls(names, n) ==
    SubSeq([i \in 1..Len(names) |-> [id |-> 10 * n + i, name |-> names[i]]],
           1, Len(names))

Completions(offered, n) ==
    {Completion(TRUE, c, <<>>) : c \in {"text", "empty", "none"}}
    \cup {Completion(FALSE, "none", <<>>)}
    \cup {Completion(TRUE, c, Calls(q, n)) :
             c \in {"text", "none"}, q \in CallNameSeqs(offered)}

\* The results of a submission that follows a round of tool calls.
FollowUps(offered, n) ==
    {Completion(TRUE, c, <<>>) : c \in {"text", "empty", "none"}}
    \cup {Completion(TRUE, c, Calls(<<NameUnqualified>>, n)) : c \in {"text", "none"}}

\* The record of one completion call: the tools and the conversation
\* passed (no tools: no tools argument, or tools=None), and what came
\* back: "overloaded", "error", "text" or "tool_calls", with the content
\* of a result, or for a failure whether the handler took it for an
\* overload.
Submission(passed, conversation, result, content, marked) ==
    [tools |-> passed, messages |-> conversation, result |-> result,
     content |-> content, marked |-> marked]

\* main.py:1687, 1944  "529" in error_str or "overloaded" in error_str.lower()
IsOverloadText(error_str) ==
    error_str \in {"Error code: 529 overloaded", "205291 tokens"}

ResultKind(r) == IF r.choices /\ Len(r.tool_calls) > 0 THEN "tool_calls" ELSE "text"

\* main.py:1762-1775
AssistantMessage(tool_calls) ==
    Message("assistant", 0,
            SubSeq([i \in 1..Len(tool_calls) |-> tool_calls[i].id],
                   1, Len(tool_calls)),
            "none")

\* A tool message that loses the id of its call.
ToolMessageUnkeyed(tool_call, tool_result) ==
    Message("tool", 0, <<>>, tool_result)

\* main.py:1918-1922
ToolMessage(tool_call, tool_result) ==
    Message("tool", tool_call.id, <<>>, tool_result)

\* main.py:1682-1709 and 1939-1959: the call raised; overloaded says
\* whether the error text has "529" or "overloaded".
\* A backoff that does not grow.
WaitTimeConstant(n) == retry_delay

\* main.py:1689, 1946  wait_time = retry_delay * (2 ** attempt)
WaitTime(n) == retry_delay * 2 ^ n

\* main.py:1691-1694, 1948-1951
RetryStatus(wait_time) == [Ev("status", 0, "retrying") EXCEPT !.wait = wait_time]

Failed(e, passed) ==
    /\ submissions' = Append(submissions,
           Submission(passed, llm_messages,
                      IF e.overloaded THEN "overloaded" ELSE "error", "none",
                      IsOverloadText(e.text)))
    /\ IF IsOverloadText(e.text)
       THEN IF attempt < max_retries - 1
            THEN /\ events' = Append(events, RetryStatus(WaitTime(attempt)))
                 /\ attempt' = attempt + 1
                 /\ UNCHANGED pc
            ELSE /\ events' = Append(events, Ev("error", 0, "overloaded"))
                 /\ pc' = "closed"
                 /\ UNCHANGED attempt
       ELSE /\ events' = Append(events, Ev("error", 0, "exception"))
            /\ pc' = "recv"
            /\ UNCHANGED attempt

\* main.py:1660-1780 and 2003-2024: the first completion call of a turn.
\* The while loop of line 1722 only counts tool_round up to the cap; what
\* follows it runs once.  Line 1730 slices the content of the first choice
\* and raises when it is null.  With tool calls the assistant message is
\* appended and execution starts; without, the message event is sent and
\* break leaves the receive loop.
CompleteOf(Raised) ==
    /\ pc = "complete"
    /\ UNCHANGED <<peer, inits, listed, supplied, registration, tool_use>>
    /\ \/ \E e \in Inputs(Raised) :
             /\ Failed(e, tools)
             /\ UNCHANGED <<response, tool_round, llm_messages, tc, rpcs>>
       \/ \E r \in Completions(tools, Len(submissions) + 1) :
             /\ submissions' = Append(submissions,
                    Submission(tools, llm_messages, ResultKind(r), r.content,
                               FALSE))
             /\ response' = r
             /\ tool_round' = max_tool_rounds
             /\ IF r.choices /\ r.content = "none"
                THEN /\ events' = Append(events, Ev("error", 0, "exception"))
                     /\ pc' = "recv"
                     /\ UNCHANGED <<llm_messages, tc, rpcs, attempt>>
                ELSE IF r.choices /\ Len(r.tool_calls) > 0
                THEN /\ events' = Append(events, Ev("status", 0, "executing"))
                     /\ llm_messages' = Append(llm_messages,
                            AssistantMessage(r.tool_calls))
                     /\ tc' = 1
                     /\ rpcs' = <<>>
                     /\ pc' = "exec"
                     /\ UNCHANGED attempt
                ELSE /\ events' = Append(events,
                            Ev("message", 0, IF r.choices THEN r.content
                                             ELSE "str(response)"))
                     /\ pc' = "closed"
                     /\ UNCHANGED <<llm_messages, tc, rpcs, attempt>>
    /\ UNCHANGED <<remote_mcp_servers, user_api_keys, turn, available_servers,
                   model, srv, server_tools, loc, tools, discovered>>

\* main.py:1876-1893: "result" or "error", what tool_result holds.
ToolResult(tool_response, is_composio) ==
    LET result == IF is_composio /\ tool_response.ctype = "sse"
                  THEN FirstParsed(tool_response.frames, 1)
                  ELSE IF JsonRaises(tool_response) THEN Garbage
                  ELSE tool_response.frames[1]
    IN  IF result.kind = "result" THEN "result" ELSE "error"

\* The servers the local daemon runs.
LocalServers == {SrvLocal}

\* A daemon that answers for a server it does not run.
LocalResultsAny(server_name) == {"result", "error"}

\* main.py:1898-1908: what tool_result holds after the POST to the local
\* daemon: the JSON body of its answer, or {"error": str(e)} when the
\* request or .json() raises.  For a server it does not run the daemon
\* has no result to give: its answer is an error body or none at all.
LocalResults(server_name) ==
    IF server_name \in LocalServers THEN {"result", "error"} ELSE {"error"}

\* A request that goes out twice.
SendTwice(log, request) == log \o <<request, request>>

\* main.py:1866-1870, 1902-1906: the one POST of a tool call.
Send(log, request) == Append(log, request)

\* The events of one tool call with the tool_result event first.
CallEventsSwapped(tool_call, actual_server_name, server_name, tool_result) ==
    <<[Ev("tool_result", tool_call.id, tool_result)
          EXCEPT !.server = server_name],
      [Ev("tool_call", tool_call.id, "none")
          EXCEPT !.server = actual_server_name]>>

\* main.py:1808-1813, 1910-1915: the events of one tool call, the
\* tool_call event sent before the call goes out and the tool_result event
\* sent when its result is there.
CallEvents(tool_call, actual_server_name, server_name, tool_result) ==
    <<[Ev("tool_call", tool_call.id, "none")
          EXCEPT !.server = actual_server_name],
      [Ev("tool_result", tool_call.id, tool_result)
          EXCEPT !.server = server_name]>>

\* main.py:1779-1924: one tool call of the round: the name is split and
\* the endpoint repaired, the tool_call event is sent, the call goes to
\* the remote endpoint or to the local daemon, and the tool_result event
\* and the tool message follow whatever the outcome.
ExecuteOf(Responses) ==
    /\ pc = "exec"
    /\ UNCHANGED <<peer, inits, listed, supplied, registration, tool_use>>
    /\ LET tool_call == response.tool_calls[tc]
           parts == SplitName(tool_call.name)
           server_name == parts.server_name
           tool_name == parts.tool_name
           actual_server_name == ActualServer(server_name, DOMAIN remote_mcp_servers)
           remote == actual_server_name \in DOMAIN remote_mcp_servers
           Finish(tool_result) ==
               /\ events' = events \o
                      CallEvents(tool_call, actual_server_name, server_name,
                                 tool_result)
               /\ llm_messages' = Append(llm_messages,
                      ToolMessage(tool_call, tool_result))
               /\ tc' = tc + 1
               /\ IF tc = Len(response.tool_calls)
                  THEN pc' = "resubmit" /\ attempt' = 0
                  ELSE UNCHANGED <<pc, attempt>>
       IN  IF remote
           THEN LET config == remote_mcp_servers[actual_server_name]
                    is_composio == IsComposio(config.endpoint)
                    protocol == IF is_composio /\ config.protocol = "none"
                                THEN "2025-03-26" ELSE config.protocol
                    sent == [Rpc("tools/call", actual_server_name,
                                 config.session, protocol, tool_name)
                                EXCEPT !.seen = Len(events) + 1]
                IN  \/ /\ rpcs' = Send(rpcs, sent)
                       /\ Finish("error")
                    \/ \E tool_response \in Inputs(Responses) :
                          /\ rpcs' = Send(rpcs, [sent EXCEPT !.status =
                                                    tool_response.status])
                          /\ Finish(ToolResult(tool_response, is_composio))
           ELSE /\ rpcs' = Send(rpcs, [Rpc("mcpd", server_name, "none", "none",
                                          tool_name)
                                         EXCEPT !.seen = Len(events) + 1])
                /\ \E tool_result \in LocalResults(server_name) :
                      Finish(tool_result)
    /\ UNCHANGED <<remote_mcp_servers, user_api_keys, turn, available_servers,
                   model, srv, server_tools, loc, tools, discovered, response,
                   tool_round, submissions>>

\* main.py:1926-2002: the completion call that follows a round; it passes
\* no tools argument.  When the result has tool calls again, response is
\* replaced and continue goes back to the receive loop; otherwise the
\* final message is sent (with a fixed text when the content is empty or
\* null) and break leaves the receive loop.
ResubmitOf(Raised) ==
    /\ pc = "resubmit"
    /\ UNCHANGED <<peer, inits, listed, supplied, registration, tool_use>>
    /\ \/ \E e \in Inputs(Raised) :
             /\ Failed(e, <<>>)
             /\ UNCHANGED response
       \/ \E final_response \in FollowUps(tools, Len(submissions) + 1) :
          /\ submissions' = Append(submissions,
                 Submission(<<>>, llm_messages, ResultKind(final_response),
                            final_response.content, FALSE))
          /\ IF final_response.choices /\ Len(final_response.tool_calls) > 0
             THEN /\ response' = final_response
                  /\ pc' = "recv"
                  /\ UNCHANGED <<events, attempt>>
             ELSE /\ events' = Append(events,
                         Ev("message", 0,
                            IF ~final_response.choices THEN "str(response)"
                            ELSE IF final_response.content = "text" THEN "text"
                            ELSE "fallback"))
                  /\ pc' = "closed"
                  /\ UNCHANGED <<response, attempt>>
    /\ UNCHANGED <<remote_mcp_servers, user_api_keys, turn, available_servers,
                   model, srv, server_tools, loc, tools, discovered,
                   llm_messages, tool_round, tc, rpcs>>

(***************************************************************************)
(* A second connection.  Every websocket connection runs its own handler  *)
(* over the same process-wide registry; the handlers interleave at their  *)
(* awaits.  The second handler is followed through the negotiation with   *)
(* one endpoint, which is where it writes to the registry; its listing    *)
(* requests write nothing the first handler reads.                        *)
(***************************************************************************)

\* main.py:1063-1095: the second handler reaches a remote endpoint of its
\* request and copies the headers of the registry record.
PeerStart ==
    /\ peer.pc = "idle"
    /\ \E server \in DOMAIN remote_mcp_servers :
          LET config == remote_mcp_servers[server]
          IN  peer' = [peer EXCEPT
                         !.pc = "init",
                         !.server = server,
                         !.headers = [session |-> config.session,
                                      protocol |-> config.protocol],
                         !.negotiated_protocol = "2025-03-26",
                         !.concurrent = /\ pc = "init"
                                        /\ available_servers[srv] = server]
    /\ UNCHANGED <<remote_mcp_servers, user_api_keys, pc, turn,
                   available_servers, model, srv, server_tools, loc, tools,
                   discovered, llm_messages, attempt, response, tool_round,
                   tc, events, rpcs, submissions, inits, listed, supplied, registration, tool_use>>

\* main.py:1100-1144, in the second handler: it sends its own initialize
\* request and stores the session header of the response in the registry.
PeerInitializeOf(Responses) ==
    /\ peer.pc = "init"
    /\ LET sent == Rpc("initialize", peer.server, peer.headers.session,
                       peer.headers.protocol, <<>>)
       IN  \/ /\ peer' = [peer EXCEPT !.pc = "done",
                                       !.rpcs = Append(@, sent)]
              /\ UNCHANGED remote_mcp_servers
           \/ \E init_response \in Inputs(Responses) :
                 /\ peer' = [peer EXCEPT
                               !.pc = IF init_response.status = 200
                                      THEN "notify" ELSE "done",
                               !.rpcs = Append(@, sent),
                               !.init_response = init_response,
                               !.mcp_session_id = init_response.session]
                 /\ remote_mcp_servers' =
                       IF init_response.session # "none"
                       THEN [remote_mcp_servers EXCEPT
                               ![peer.server].session = init_response.session]
                       ELSE remote_mcp_servers
    /\ UNCHANGED <<user_api_keys, pc, turn, available_servers, model, srv,
                   server_tools, loc, tools, discovered, llm_messages,
                   attempt, response, tool_round, tc, events, rpcs,
                   submissions, inits, listed, supplied, registration, tool_use>>

\* main.py:1145-1236, in the second handler: notifications/initialized,
\* then the protocol version the initialize result echoes is kept and
\* stored in the registry.
PeerNotify ==
    /\ peer.pc = "notify"
    /\ LET sent == Rpc("notifications/initialized", peer.server,
                       peer.headers.session, peer.headers.protocol, <<>>)
           parsed == ParseInit(peer.init_response)
           echoed == parsed.version # "none"
       IN  \/ /\ peer' = [peer EXCEPT !.pc = "done",
                                       !.rpcs = Append(@, sent)]
              /\ UNCHANGED remote_mcp_servers
           \/ /\ peer' = [peer EXCEPT
                            !.pc = "done",
                            !.rpcs = Append(@, sent),
                            !.negotiated_protocol =
                                IF echoed THEN parsed.version ELSE @]
              /\ remote_mcp_servers' =
                    IF echoed
                    THEN [remote_mcp_servers EXCEPT
                            ![peer.server].protocol = parsed.version]
                    ELSE remote_mcp_servers
    /\ UNCHANGED <<user_api_keys, pc, turn, available_servers, model, srv,
                   server_tools, loc, tools, discovered, llm_messages,
                   attempt, response, tool_round, tc, events, rpcs,
                   submissions, inits, listed, supplied, registration, tool_use>>

\* main.py:1021-1041, in the second handler: a chat request arrives on the
\* second connection and the keys it carries are stored in user_api_keys,
\* the dictionary of the process.
PeerReceiveOf(Received) ==
    /\ peer.pc = "idle"
    /\ \E request \in Inputs(Received) :
          user_api_keys' = user_api_keys \cup request.api_keys
    /\ UNCHANGED <<remote_mcp_servers, pc, turn, available_servers, model,
                   srv, server_tools, loc, tools, discovered, llm_messages,
                   attempt, response, tool_round, tc, events, rpcs,
                   submissions, peer, inits, listed, supplied, registration, tool_use>>

(***************************************************************************)
(* Adding a connector endpoint, add_composio_mcp_server, main.py:323-384.  *)
(* Requests are served concurrently and interleave at the await of the     *)
(* upstream call.                                                          *)
(***************************************************************************)
\* Requests to add a connector endpoint.
MaxAdds == 3

\* The id of the n-th server the connector service creates.
ServerUuid(n) ==
    IF n = 1 THEN "u1" ELSE IF n = 2 THEN "u2" ELSE IF n = 3 THEN "u3" ELSE "u4"

\* main.py:335: the URL built from a stored server id.
StoredUrl(server_uuid, user_id) ==
    <<"https", "mcp", "composio", "dev", "composio", "server", server_uuid,
      "mcp", "user_id", user_id>>

\* composio_integration.py:891
FallbackUrl == <<"https", "mcp", "composio", "dev", "error", "no-server-created">>

\* The URLs create_mcp_server returns with a server id: with or without
\* the /mcp path, with or without the user_id parameter.
CreatedUrls(server_uuid, user_id) ==
    LET base == <<"https", "mcp", "composio", "dev", "composio", "server",
                  server_uuid>>
    IN  {base, base \o <<"mcp">>, base \o <<"mcp", "user_id", user_id>>,
         base \o <<"user_id", user_id>>}

\* main.py:352-363: /mcp is appended unless the URL ends with it or holds
\* "/mcp?", then the user_id parameter unless the URL holds one.
FixUrl(mcp_url, user_id) ==
    LET n == Len(mcp_url)
        queried == \E i \in 1..(n - 1) :
                      mcp_url[i] = "mcp" /\ mcp_url[i + 1] = "user_id"
        pathed == IF mcp_url[n] # "mcp" /\ ~queried
                  THEN mcp_url \o <<"mcp">> ELSE mcp_url
    IN  IF \E i \in DOMAIN pathed : pathed[i] = "user_id"
        THEN pathed ELSE pathed \o <<"user_id", user_id>>

\* A request to add a connector endpoint: who asks for which app, whether
\* it awaits the upstream call ("creating") or has answered ("done"), the
\* URL it stored and answered with, and which upstream call is its own (0:
\* it made none).
Add(user_id, app_name, at, url, call) ==
    [user_id |-> user_id, app_name |-> app_name, pc |-> at, url |-> url,
     call |-> call]

\* An upstream call create_mcp_server(user_id, app_name): whether the
\* mapping of the pair existed when it was made, and whether another
\* request for the pair was awaiting its own call.
Creation(user_id, app_name, mapped, pending) ==
    [user_id |-> user_id, app_name |-> app_name, mapped |-> mapped,
     pending |-> pending]

\* What a request to add a connector endpoint leaves alone.
handler ==
    <<user_api_keys, pc, turn, available_servers, model, srv, server_tools,
      loc, tools, discovered, llm_messages, attempt, response, tool_round,
      tc, events, rpcs, submissions, peer, inits, listed, supplied>>

\* main.py:371-376: the record is assigned, whether the name exists or not.
Register(server_name, mcp_url) ==
    remote_mcp_servers' = (server_name :> Config(mcp_url)) @@ remote_mcp_servers

\* main.py:323-343: a request arrives.  With a mapping for the pair the URL
\* is built from the stored id and the record is stored at once (371-384);
\* without, create_mcp_server is called and awaited.
AddBegin ==
    /\ Len(adds) < MaxAdds
    /\ \E user_id \in UserIds, app_name \in AppNames :
          LET server_name == ServerName(app_name)
              mapping_key == MappingKey(user_id, app_name)
          IN  IF mcp_server_mappings[mapping_key] # "none"
              THEN LET mcp_url == StoredUrl(mcp_server_mappings[mapping_key],
                                            user_id)
                   IN  /\ Register(server_name, mcp_url)
                       /\ adds' = Append(adds,
                              Add(user_id, app_name, "done", mcp_url, 0))
                       /\ UNCHANGED <<mcp_server_mappings, created>>
              ELSE /\ created' = Append(created,
                          Creation(user_id, app_name,
                              mcp_server_mappings[mapping_key] # "none",
                              \E i \in DOMAIN adds :
                                 /\ adds[i].pc = "creating"
                                 /\ adds[i].user_id = user_id
                                 /\ adds[i].app_name = app_name))
                   /\ adds' = Append(adds,
                          Add(user_id, app_name, "creating", <<>>,
                              Len(created) + 1))
                   /\ UNCHANGED <<remote_mcp_servers, mcp_server_mappings>>
    /\ UNCHANGED <<handler, tool_use>>

\* main.py:343-384: create_mcp_server returns.  Without a result the
\* fallback URL is used and no mapping is stored; with one the URL is
\* repaired and the server id is stored under the pair.  Then the record
\* is stored.
AddFinish ==
    /\ \E i \in DOMAIN adds :
          /\ adds[i].pc = "creating"
          /\ LET request == adds[i]
                 server_name == ServerName(request.app_name)
                 mapping_key == MappingKey(request.user_id, request.app_name)
                 server_uuid == ServerUuid(request.call)
                 Store(mcp_url) ==
                     /\ Register(server_name, mcp_url)
                     /\ adds' = [adds EXCEPT ![i].pc = "done",
                                             ![i].url = mcp_url]
             IN  \/ /\ Store(FallbackUrl)
                    /\ UNCHANGED mcp_server_mappings
                 \/ \E url \in CreatedUrls(server_uuid, request.user_id) :
                       /\ mcp_server_mappings' =
                             [mcp_server_mappings EXCEPT
                                ![mapping_key] = server_uuid]
                       /\ Store(FixUrl(url, request.user_id))
    /\ UNCHANGED <<created, handler, tool_use>>

(***************************************************************************)
(* handle_tool_use_response, tool_handler.py:121-261.                      *)
(***************************************************************************)
\* Follow-up model calls of one run that the model follows.
MaxDepth == 4

\* The content of a model response: whether it has a text block, and the
\* number of its tool_use blocks.
Content(text, uses) == [text |-> text, uses |-> uses]

Contents == {Content(text, uses) : text \in BOOLEAN, uses \in 0..MaxCalls}

\* tool_handler.py:166-206: one tool_call and one tool_result event per
\* tool_use block.
RECURSIVE ToolEvents(_)
ToolEvents(uses) ==
    IF uses = 0 THEN <<>>
    ELSE <<"tool_call", "tool_result">> \o ToolEvents(uses - 1)

\* tool_handler.py:131-230: the body of the function up to the follow-up
\* call, for the content of the response given to an invocation at the
\* given depth.
\* Without a tool_use block the text is sent and the function returns;
\* with one, the first text is sent, every tool is executed, the assistant
\* message is appended, and without a client an error ends the run.
Enter(run, content, depth) ==
    IF content.uses = 0
    THEN [run EXCEPT !.pc = "done", !.depth = depth,
                     !.sent = @ \o <<"message">>]
    ELSE LET shown == run.sent
                         \o (IF content.text THEN <<"message">> ELSE <<>>)
                         \o ToolEvents(content.uses)
         IN  IF run.anthropic_client
             THEN [run EXCEPT !.pc = "create", !.depth = depth,
                              !.sent = shown, !.appended = @ + 1]
             ELSE [run EXCEPT !.pc = "done", !.depth = depth,
                              !.sent = shown \o <<"error">>,
                              !.appended = @ + 1]

\* tool_handler.py:121-230: the function is called with a model response.
HandleToolUse ==
    /\ tool_use.pc = "idle"
    /\ \E content \in Contents, anthropic_client \in BOOLEAN :
          tool_use' = Enter([tool_use EXCEPT
                               !.anthropic_client = anthropic_client],
                            content, 1)
    /\ UNCHANGED <<remote_mcp_servers, registration, handler>>

\* tool_handler.py:230-261: the follow-up model call.  Its text is sent;
\* when its content has a tool_use block the function calls itself with
\* it, whatever the number of invocations already nested; an exception
\* sends an error event.  The recursive call is the last statement of
\* every invocation, so that a return unwinds them all.
FollowUp ==
    /\ tool_use.pc = "create"
    /\ tool_use.follow_ups < MaxDepth
    /\ LET called == [tool_use EXCEPT !.follow_ups = @ + 1]
       IN  \/ tool_use' = [called EXCEPT !.pc = "done",
                                         !.sent = @ \o <<"error">>]
           \/ \E final_response \in Contents :
                 LET told == [called EXCEPT
                                !.sent = @ \o (IF final_response.text
                                               THEN <<"message">> ELSE <<>>)]
                 IN  tool_use' =
                        IF final_response.uses > 0
                        THEN Enter(told, final_response, tool_use.depth + 1)
                        ELSE [told EXCEPT !.pc = "done"]
    /\ UNCHANGED <<remote_mcp_servers, registration, handler>>

(***************************************************************************)
(* Specifications.                                                         *)
(***************************************************************************)

ReceiveAny == ReceiveOf("AllRequests")
InitializeAny == InitializeOf("InitResponses")
ListToolsAny == ListToolsOf("ListResponses")
AltMethodAny == AltMethodOf("ListResponses")
ChainMethodAny == ChainMethodOf("ListResponses")

\* Tool discovery up to the tool set of the turn, with every response of
\* InitResponses and ListResponses.
NextDiscovery ==
    \/ ReceiveAny \/ StartServer \/ InitializeAny \/ Notify \/ ListToolsAny
    \/ AltMethodAny \/ ChainMethodAny \/ BuildToolSet

SpecDiscovery == Init /\ [][NextDiscovery]_vars

\* The whole handler, with requests for one endpoint or an endpoint and a
\* second id, and endpoints that answer initialize and the listing methods
\* with one of a few responses.
Receive == ReceiveOf("Requests")
Initialize == InitializeOf("FewInitResponses")
ListTools == ListToolsOf("FewListResponses")
AltMethod == AltMethodOf("FewListResponses")
ChainMethod == ChainMethodOf("FewListResponses")
Complete == CompleteOf("FewErrors")
Execute == ExecuteOf("CallResponses")
Resubmit == ResubmitOf("FewErrors")

Next ==
    \/ Receive \/ StartServer \/ Initialize \/ Notify \/ ListTools
    \/ AltMethod \/ ChainMethod \/ BuildToolSet
    \/ Complete \/ Execute \/ Resubmit

Spec == Init /\ [][Next]_vars

\* The whole handler for requests that select at most the connector, with
\* every error of Errors at the completion calls.
ReceiveFew == ReceiveOf("RetryRequests")
CompleteAny == CompleteOf("Errors")
ResubmitAny == ResubmitOf("Errors")

NextRetry ==
    \/ ReceiveFew \/ StartServer \/ Initialize \/ Notify \/ ListTools
    \/ AltMethod \/ ChainMethod \/ BuildToolSet
    \/ CompleteAny \/ Execute \/ ResubmitAny

SpecRetry == Init /\ [][NextRetry]_vars

\* Tool discovery of one handler while the handler of a second connection
\* negotiates with an endpoint of the same registry; the endpoint answers
\* the second initialize with the session it gave before or a new one.
PeerInitialize == PeerInitializeOf("PeerInitResponses")

NextPeers ==
    \/ ReceiveFew \/ StartServer \/ Initialize \/ Notify \/ ListTools
    \/ AltMethod \/ ChainMethod \/ BuildToolSet
    \/ PeerStart \/ PeerInitialize \/ PeerNotify

SpecPeers == Init /\ [][NextPeers]_vars

\* Tool discovery and the first completion call, turn after turn, for
\* requests that select the connector, alone or with a server of the
\* local daemon before or after it, and a connector that lists one tool
\* or more tools than the budget.
ReceiveBudget == ReceiveOf("BudgetRequests")
ListToolsBig == ListToolsOf("BigListResponses")
AltMethodBig == AltMethodOf("BigListResponses")
ChainMethodBig == ChainMethodOf("BigListResponses")

NextBudget ==
    \/ ReceiveBudget \/ StartServer \/ Initialize \/ Notify \/ ListToolsBig
    \/ AltMethodBig \/ ChainMethodBig \/ BuildToolSet
    \/ Complete

SpecBudget == Init /\ [][NextBudget]_vars

\* Tool discovery with endpoints whose catalog holds a malformed
\* descriptor.
ListToolsMalformed == ListToolsOf("MalformedListResponses")
AltMethodMalformed == AltMethodOf("MalformedListResponses")
ChainMethodMalformed == ChainMethodOf("MalformedListResponses")

NextMalformed ==
    \/ ReceiveAny \/ StartServer \/ Initialize \/ Notify
    \/ ListToolsMalformed \/ AltMethodMalformed \/ ChainMethodMalformed
    \/ BuildToolSet

SpecMalformed == Init /\ [][NextMalformed]_vars

\* The whole handler for requests that select at most the connector, whose
\* endpoint answers a tools/call with a result or rejects it with HTTP 401
\* and a JSON-RPC error saying that the session has expired.
ExecuteExpired == ExecuteOf("ExpiredCallResponses")

NextExpired ==
    \/ ReceiveFew \/ StartServer \/ Initialize \/ Notify \/ ListTools
    \/ AltMethod \/ ChainMethod \/ BuildToolSet
    \/ Complete \/ ExecuteExpired \/ Resubmit

SpecExpired == Init /\ [][NextExpired]_vars

\* The whole handler for requests that select the connector, while the
\* handler of a second connection negotiates with an endpoint of the same
\* registry and is given the same session or another one.
ReceiveShared == ReceiveOf("SharedRequests")
InitializeShared == InitializeOf("SharedInitResponses")
ListToolsShared == ListToolsOf("SharedListResponses")
AltMethodShared == AltMethodOf("SharedListResponses")
ChainMethodShared == ChainMethodOf("SharedListResponses")

NextShared ==
    \/ ReceiveShared \/ StartServer \/ InitializeShared \/ Notify
    \/ ListToolsShared \/ AltMethodShared \/ ChainMethodShared
    \/ BuildToolSet
    \/ Complete \/ ExecuteExpired \/ Resubmit
    \/ PeerStart \/ PeerInitialize \/ PeerNotify

SpecShared == Init /\ [][NextShared]_vars

\* Tool discovery and the first completion call of one connection, while
\* chat requests with or without a key arrive on a second connection.
PeerReceive == PeerReceiveOf("RetryRequests")

NextKeys ==
    \/ ReceiveFew \/ StartServer \/ InitializeShared \/ Notify
    \/ ListToolsShared \/ AltMethodShared \/ ChainMethodShared
    \/ BuildToolSet \/ Complete \/ PeerReceive

SpecKeys == Init /\ [][NextKeys]_vars

\* Tool discovery and the first completion call for models of every
\* provider, with or without the key of the provider.
ReceiveProviders == ReceiveOf("ProviderRequests")

NextProviders ==
    \/ ReceiveProviders \/ StartServer \/ InitializeShared \/ Notify
    \/ ListToolsShared \/ AltMethodShared \/ ChainMethodShared
    \/ BuildToolSet \/ Complete

SpecProviders == Init /\ [][NextProviders]_vars

\* Requests to add a connector endpoint, from two users, in any
\* interleaving.
NextRegister == AddBegin \/ AddFinish

SpecRegister == Init /\ [][NextRegister]_vars

\* One run of handle_tool_use_response, with every content of the initial
\* response and of each response that follows.
NextToolUse == HandleToolUse \/ FollowUp

SpecToolUse == Init /\ [][NextToolUse]_vars

(***************************************************************************)
(* Properties.                                                             *)
(***************************************************************************)
\* The turn is over: the handler waits for the next request or has ended.
TurnOver == turn > 0 /\ pc \in {"recv", "closed"}

\* The terminal events of a log: message and error.
Terminals(log) == {i \in DOMAIN log : log[i].type \in {"message", "error"}}

\* The tool rounds of a conversation: its assistant messages with calls.
Rounds(conversation) ==
    Cardinality({p \in DOMAIN conversation :
                    /\ conversation[p].role = "assistant"
                    /\ Len(conversation[p].calls) > 0})

\* Every completion call of the turn returned tool calls (with text beside
\* them), none failed.
AlwaysToolCalls ==
    /\ Len(submissions) > 0
    /\ \A i \in DOMAIN submissions :
          /\ submissions[i].result = "tool_calls"
          /\ submissions[i].content # "none"

\* C1: when every completion call of a turn returns a tool call, the turn
\* executes exactly max_tool_rounds rounds and ends with one terminal
\* message that says the maximum was reached.
C1_RoundCap ==
    (TurnOver /\ AlwaysToolCalls)
        => /\ Rounds(llm_messages) = max_tool_rounds
           /\ Cardinality(Terminals(events)) = 1
           /\ events[Len(events)] = Ev("message", 0, "max rounds")

\* C2: when the turn is over, every tool call of a completion result of
\* the turn, with or without text content beside the calls, has been
\* executed and its result appended to the conversation.
C2_EveryCallExecuted ==
    (TurnOver /\ response.choices)
        => \A i \in DOMAIN response.tool_calls :
              \E p \in DOMAIN llm_messages :
                 /\ llm_messages[p].role = "tool"
                 /\ llm_messages[p].id = response.tool_calls[i].id

\* Every assistant message with calls c1..cn is followed at once by
\* exactly n tool messages keyed by c1..cn in that order, and every tool
\* message belongs to such a group.
RoundsInOrder(conversation) ==
    \A p \in DOMAIN conversation :
       LET m == conversation[p]
           n == Len(m.calls)
       IN  /\ (m.role = "assistant" /\ n > 0)
                => /\ p + n <= Len(conversation)
                   /\ \A i \in 1..n :
                         /\ conversation[p + i].role = "tool"
                         /\ conversation[p + i].id = m.calls[i]
                   /\ (p + n + 1 <= Len(conversation)
                         => conversation[p + n + 1].role # "tool")
           /\ m.role = "tool"
                => \E q \in 1..(p - 1) :
                      /\ conversation[q].role = "assistant"
                      /\ q + Len(conversation[q].calls) >= p

\* C3: the conversation of every completion call has, for each round
\* before it, the assistant tool-call message followed by exactly one tool
\* message per call, keyed by the call ids in the order issued; and when a
\* round is done the conversation ends with the messages of that round.
C3_RoundInConversation ==
    /\ \A k \in DOMAIN submissions : RoundsInOrder(submissions[k].messages)
    /\ pc = "resubmit"
         => LET n == Len(response.tool_calls)
                L == Len(llm_messages)
            IN  /\ L > n
                /\ llm_messages[L - n] = AssistantMessage(response.tool_calls)
                /\ RoundsInOrder(llm_messages)

\* A completion call was made after a round of two calls.
C3_Witness ==
    \E k \in DOMAIN submissions :
       /\ Rounds(submissions[k].messages) = 1
       /\ \E p \in DOMAIN submissions[k].messages :
             Len(submissions[k].messages[p].calls) = MaxCalls

\* C4: a turn in which a completion result was obtained ends with exactly
\* one terminal event, message or error, also when the completion call
\* that follows a round returns tool calls again.
C4_OneTerminalEvent ==
    (TurnOver /\ \E i \in DOMAIN submissions :
                    submissions[i].result \in {"text", "tool_calls"})
        => Cardinality(Terminals(events)) = 1

\* The endpoint whose visit has just ended, with its requests in rpcs.
Visited == pc = "server" /\ srv > 1 /\ Len(rpcs) > 0

\* The tools array a listing response carries, in either encoding; the
\* empty sequence when it is no result with a tools array.
Listed(resp) ==
    LET f == IF resp.ctype = "sse" THEN FirstParsed(resp.frames, 1)
             ELSE IF Len(resp.frames) > 0 THEN resp.frames[1]
             ELSE Garbage
    IN  IF f.kind = "result" /\ f.toolsAt = "tools" THEN f.tools ELSE <<>>

\* The listing methods of the visit, in the order sent.
ListingMethods ==
    LET listing == SelectSeq(rpcs, LAMBDA r : r.method \notin
                      {"GET", "initialize", "notifications/initialized"})
    IN  SubSeq([i \in 1..Len(listing) |-> listing[i].method], 1, Len(listing))

\* The tool set holds the tool an endpoint listed, under that endpoint.
Offered(server, tool) ==
    \E j \in DOMAIN tools :
       /\ tools[j].fmt = "function"
       /\ tools[j].server = server
       /\ tools[j].raw = NameOf(tool)
       /\ tools[j].name = FullName(server, NameOf(tool))

\* C5: for any registered endpoint, when initialize answers 200 with a
\* result that embeds no tools and tools/list answers 200 with a result
\* whose tools array is not empty, every listed tool is in the tool set
\* of the turn under the name qualified by that endpoint.
C5_ListedToolsOffered ==
    (/\ Visited
     /\ loc.init_response.status = 200
     /\ Listed(loc.init_response) = <<>>
     /\ ~loc.embedded
     /\ ListingMethods = <<"tools/list">>
     /\ loc.tool_response.status = 200
     /\ Listed(loc.tool_response) # <<>>)
        => \A i \in DOMAIN Listed(loc.tool_response) :
              Offered(available_servers[srv - 1], Listed(loc.tool_response)[i])

\* The one order of the listing methods.
FixedOrder == <<"tools/list">> \o alternative_methods \o chain_methods

\* C6: when tools/list was rejected and a fallback method answered with a
\* result that has a tools array, the methods sent are an initial part of
\* the fixed order that ends with that method, and the catalog of the
\* endpoint is exactly the array returned.
C6_FallbackOrder ==
    (/\ Visited
     /\ Len(ListingMethods) > 1
     /\ Listed(loc.tool_response) # <<>>)
        => /\ ListingMethods = SubSeq(FixedOrder, 1, Len(ListingMethods))
           /\ server_tools = Listed(loc.tool_response)

\* Discovery is over for the turn.
Discovered == turn > 0 /\ pc \notin {"server", "init", "notify", "list", "alt", "chain"}

\* C7: when the initialize result embeds a non-empty tools array, the
\* catalog of the endpoint is that array and no listing method is sent;
\* and the turn goes on to a completion call that offers those tools.
C7_EmbeddedCatalog ==
    /\ (Visited /\ loc.embedded)
          => /\ server_tools = ParseInit(loc.init_response).server_tools
             /\ ListingMethods = <<>>
    /\ (Discovered /\ \E i \in DOMAIN tools : tools[i].fmt = "raw")
          => pc # "closed"

\* C8: a call of an offered tool that endpoint e listed as n, with e
\* registered and the qualified name within MaxNameLen, is sent as
\* tools/call to e with the name n.
C8_NameRoundTrip ==
    pc \in {"exec", "resubmit"}
        => \A k \in 1..(tc - 1) : \A j \in DOMAIN tools :
              (/\ tools[j].name = response.tool_calls[k].name
               /\ tools[j].server \in DOMAIN remote_mcp_servers
               /\ Len(CleanServer(tools[j].server)) + Len(Sep)
                     + Len(tools[j].raw) <= MaxNameLen)
                 => /\ rpcs[k].method = "tools/call"
                    /\ rpcs[k].server = tools[j].server
                    /\ rpcs[k].name = tools[j].raw

\* C9: the tool set offered to the completion call has no two tools of
\* one qualified name, and the tool kept for a name is the first one
\* discovered under it.
C9_NoDuplicateNames ==
    pc = "complete"
        => /\ \A i, j \in DOMAIN tools :
                 tools[i].name = tools[j].name => i = j
           /\ \A i \in DOMAIN tools :
                 \E j \in DOMAIN discovered :
                    /\ discovered[j] = tools[i]
                    /\ \A h \in 1..(j - 1) : discovered[h].name # tools[i].name
           /\ Len(discovered) <= max_tools
                 => \A j \in DOMAIN discovered :
                       \E i \in DOMAIN tools : tools[i].name = discovered[j].name

\* Two different tools were discovered under one name and one was dropped.
C9_Witness ==
    /\ pc = "complete"
    /\ Len(tools) < Len(discovered)
    /\ \E i, j \in DOMAIN discovered :
          /\ i < j
          /\ discovered[i].name = discovered[j].name
          /\ discovered[i] # discovered[j]

\* C10: every tool offered to the completion call has a parameters schema
\* of type "object" with a properties key, whatever input schema the
\* endpoint listed.
C10_ObjectSchema ==
    pc = "complete"
        => \A i \in DOMAIN tools :
              /\ tools[i].parameters.k = "dict"
              /\ tools[i].parameters.type = "object"
              /\ tools[i].parameters.props

\* The characters of [A-Za-z0-9_-].
NameChars ==
    {"a", "b", "c", "d", "e", "f", "g", "h", "i", "j", "k", "l", "m", "n",
     "o", "p", "q", "r", "s", "t", "u", "v", "w", "x", "y", "z",
     "A", "B", "C", "D", "E", "F", "G", "H", "I", "J", "K", "L", "M", "N",
     "O", "P", "Q", "R", "S", "T", "U", "V", "W", "X", "Y", "Z",
     "0", "1", "2", "3", "4", "5", "6", "7", "8", "9", "_", "-"}

\* C11: every qualified name offered to the completion call has at most
\* MaxNameLen characters, all of them in [A-Za-z0-9_-].
C11_NameCharset ==
    pc = "complete"
        => \A i \in DOMAIN tools :
              /\ Len(tools[i].name) <= MaxNameLen
              /\ \A k \in DOMAIN tools[i].name : tools[i].name[k] \in NameChars

\* The number of consecutive completion calls that failed with what the
\* handler takes for an overload (every overload is among them) and that
\* end with the i-th call of the turn.
Overloads(i) ==
    LET F[k \in 0..i] ==
            IF k = 0 \/ ~submissions[k].marked THEN 0
            ELSE F[k - 1] + 1
    IN  F[i]

\* The delays the retry status events of the turn announce, in order.
RetryWaits ==
    LET retries == SelectSeq(events, LAMBDA e : e.text = "retrying")
    IN  SubSeq([j \in 1..Len(retries) |-> retries[j].wait], 1, Len(retries))

\* The delays after the first and after the second overload.
BackoffDelays == <<1, 2>>

\* The delays that the overloaded calls of the turn ask for: one after
\* each overload that is not the last attempt.
RECURSIVE DelaysUpTo(_)
DelaysUpTo(i) ==
    IF i = 0 THEN <<>>
    ELSE IF Overloads(i) \in DOMAIN BackoffDelays
         THEN Append(DelaysUpTo(i - 1), BackoffDelays[Overloads(i)])
         ELSE DelaysUpTo(i - 1)

\* C12: an overloaded completion call is retried after 1 s and then 2 s,
\* at most max_retries attempts are made, every retry passes the same
\* conversation and tools, each overload that is not the last attempt is
\* followed by exactly one delayed retry, and after max_retries overloads
\* the turn ends with one error event and nothing more is called.
C12_OverloadRetry ==
    /\ \A i \in DOMAIN submissions : Overloads(i) <= max_retries
    /\ RetryWaits = DelaysUpTo(Len(submissions))
    /\ \A i \in DOMAIN submissions :
          submissions[i].result = "overloaded" => submissions[i].marked
    /\ \A i \in 1..(Len(submissions) - 1) :
          submissions[i].marked
             => /\ Overloads(i) < max_retries
                /\ submissions[i + 1].messages = submissions[i].messages
                /\ submissions[i + 1].tools = submissions[i].tools
    /\ (Len(submissions) > 0 /\ Overloads(Len(submissions)) = max_retries)
          => /\ pc = "closed"
             /\ events[Len(events)].type = "error"
             /\ Cardinality(Terminals(events)) = 1
    /\ (Len(submissions) > 0 /\ submissions[Len(submissions)].marked
        /\ Overloads(Len(submissions)) < max_retries)
          => pc \in {"complete", "resubmit"}

\* A call succeeded at the third attempt, after two overloads, and the
\* call after the round was overloaded three times.
C12_Witness ==
    /\ \E i \in 1..(Len(submissions) - 1) :
          /\ Overloads(i) = 2
          /\ submissions[i + 1].result = "tool_calls"
    /\ Len(submissions) > 0
    /\ Overloads(Len(submissions)) = max_retries
    /\ \A i \in DOMAIN submissions :
          submissions[i].marked => submissions[i].result = "overloaded"

\* C13: a completion call that fails with an error that is no overload is
\* the last call of the turn: it is not retried, the turn ends with one
\* error event, and no tool call follows it.
C13_OtherErrorOnce ==
    \A i \in DOMAIN submissions :
       submissions[i].result = "error"
          => /\ i = Len(submissions)
             /\ TurnOver
             /\ events[Len(events)].type = "error"
             /\ Cardinality(Terminals(events)) = 1

\* The tool messages of a conversation.
ToolMessages(conversation) ==
    SelectSeq(conversation, LAMBDA m : m.role = "tool")

\* C14: from the start of a round to the end of the turn, the requests
\* sent to backends are one per tool call executed so far, in the order
\* of the calls, whatever the outcome of each; none is sent a second time.
C14_AtMostOnce ==
    /\ (pc \in {"exec", "resubmit"} \/ (TurnOver /\ Rounds(llm_messages) > 0))
          => /\ Len(rpcs) = Len(ToolMessages(llm_messages))
             /\ \A k \in DOMAIN rpcs : rpcs[k].method \in {"tools/call", "mcpd"}
    /\ pc \in {"exec", "resubmit"}
          => /\ Len(rpcs) = tc - 1
             /\ Len(rpcs) <= Len(response.tool_calls)
             /\ \A k \in DOMAIN rpcs :
                   /\ rpcs[k].name = SplitName(response.tool_calls[k].name).tool_name
                   /\ ToolMessages(llm_messages)[k].id = response.tool_calls[k].id

\* A round of two calls is done, the first call was sent to an endpoint
\* and failed, and the turn went on.
C14_Witness ==
    /\ pc = "resubmit"
    /\ attempt > 0
    /\ Len(response.tool_calls) = MaxCalls
    /\ rpcs[1].method = "tools/call"
    /\ ToolMessages(llm_messages)[1].result = "error"

\* The name of a call resolves to no endpoint: after the repair its
\* endpoint segment is no registered remote endpoint, and the local
\* daemon runs no server of that name.
Unresolvable(tool_call) ==
    LET server_name == SplitName(tool_call.name).server_name
    IN  /\ ActualServer(server_name, DOMAIN remote_mcp_servers)
              \notin DOMAIN remote_mcp_servers
        /\ server_name \notin LocalServers

Initializes(log, server) ==
    Cardinality({k \in DOMAIN log : /\ log[k].method = "initialize"
                                    /\ log[k].server = server})

\* C16: when two handlers needed a session with the same endpoint at the
\* same time and both have negotiated, the endpoint has received one
\* initialize request and both handlers hold the same session token.
C16_SingleInitialize ==
    (/\ peer.pc = "done"
     /\ peer.concurrent
     /\ pc \in {"notify", "list", "alt", "chain"}
     /\ available_servers[srv] = peer.server)
        => /\ Initializes(rpcs \o peer.rpcs, peer.server) = 1
           /\ peer.mcp_session_id = loc.mcp_session_id

\* An initialize response that carries no JSON-RPC result.
Unusable(init_response) ==
    IF init_response.ctype = "sse"
    THEN \A k \in DOMAIN init_response.frames :
            init_response.frames[k].kind # "result"
    ELSE \/ JsonRaises(init_response)
         \/ init_response.frames[1].kind # "result"

\* The negotiation with an endpoint failed: the initialize request raised
\* or timed out, or its response has another status than 200 or is
\* unusable.
InitFailed(outcome) ==
    \/ outcome.init_response = NoResp
    \/ outcome.init_response.status # 200
    \/ Unusable(outcome.init_response)

\* The endpoints whose negotiation failed in this turn.
FailedServers ==
    {inits[k].server : k \in {j \in DOMAIN inits : InitFailed(inits[j])}}

\* C17: when the negotiation with a selected endpoint failed, the turn is
\* not aborted at the end of discovery: it goes on to a completion call.
C17_FailureIsolated ==
    (FailedServers # {} /\ srv > Len(available_servers))
        => pc # "closed"

\* C18: when the negotiation with a selected endpoint failed, the events
\* of the turn hold, when the turn is over, a status or error event that
\* names the endpoint.
C18_FailureReported ==
    TurnOver
        => \A server \in FailedServers :
              \E k \in DOMAIN events :
                  /\ events[k].type \in {"status", "error"}
                  /\ events[k].server = server

\* The methods that ask an endpoint for its tools: tools/list and the
\* fallback methods.
ListMethodNames ==
    {"tools/list"}
    \cup {alternative_methods[i] : i \in DOMAIN alternative_methods}
    \cup {chain_methods[i] : i \in DOMAIN chain_methods}

\* C19: a listing request, canonical or fallback, is in the requests sent
\* to an endpoint only when the initialize response of the endpoint has
\* status 200 and carries a JSON-RPC result.
C19_ListAfterInitialize ==
    \A k \in DOMAIN rpcs :
        rpcs[k].method \in ListMethodNames
            => /\ loc.init_response.status = 200
               /\ ~Unusable(loc.init_response)

\* The tools of a list whose name has, or has not, the connector prefix.
ConnectorTools(list) ==
    SelectSeq(list, LAMBDA t : StartsWith(t.name, composio))

OtherTools(list) ==
    SelectSeq(list, LAMBDA t : ~StartsWith(t.name, composio))

\* The entries of a are entries of b and stand in the order they have in
\* b, a list without repetitions.
InOrderOf(a, b) ==
    LET Pos(x) == CHOOSE k \in DOMAIN b : b[k] = x
    IN  /\ \A i \in DOMAIN a : \E k \in DOMAIN b : b[k] = a[i]
        /\ \A i \in 1..(Len(a) - 1) : Pos(a[i]) < Pos(a[i + 1])

\* The tool set of the turn before the budget: the discovered tools
\* without duplicates.
Unique == Dedup(discovered)

\* The budget was enforced in this turn: discovery is over and the
\* deduplication before the budget did not raise.
Budgeted ==
    /\ turn > 0
    /\ pc \in {"complete", "exec", "resubmit", "recv", "closed"}
    /\ ~HasUnwrapped(tools)

\* C20: after the budget the tool set of the turn, and of every completion
\* call, holds at most 50 tools; when the unique tools were more, no tool
\* with the connector prefix was dropped while another tool was kept, the
\* tools of each group stand in the order of their discovery, and the
\* turn went on to a completion call with the tools that were kept.
C20_Budget ==
    /\ Budgeted
          => /\ Len(tools) <= max_tools
             /\ \A k \in DOMAIN submissions :
                   Len(submissions[k].tools) <= max_tools
    /\ (Budgeted /\ Len(Unique) > max_tools)
          => /\ Len(tools) = max_tools
             /\ InOrderOf(ConnectorTools(tools), ConnectorTools(Unique))
             /\ InOrderOf(OtherTools(tools), OtherTools(Unique))
             /\ Len(ConnectorTools(tools)) < Len(ConnectorTools(Unique))
                   => OtherTools(tools) = <<>>
             /\ \/ pc = "complete"
                \/ /\ submissions # <<>>
                   /\ submissions[1].tools = tools

\* The budget took effect on a tool set that began with tools of another
\* endpoint and held a connector tool after them: the connector tool was
\* kept and the other tools cut.
C20_Witness ==
    /\ pc = "recv"
    /\ submissions # <<>>
    /\ Len(Unique) > max_tools
    /\ ~StartsWith(Unique[1].name, composio)
    /\ Len(ConnectorTools(tools)) = 1
    /\ Len(OtherTools(tools)) = max_tools - 1

\* A descriptor the normaliser can read: an object whose name is a string.
WellFormed(tool) == tool.isdict /\ tool.nameKind = "str"

\* C21: when the catalog read from an endpoint holds a malformed
\* descriptor, every well-formed descriptor of that catalog, before and
\* after the malformed one, has its tool in the tool set of the turn.
C21_WellFormedKept ==
    (/\ Visited
     /\ ~loc.embedded
     /\ \E i \in DOMAIN server_tools : Raises(server_tools[i]))
        => \A j \in DOMAIN server_tools :
              WellFormed(server_tools[j])
                  => Offered(available_servers[srv - 1], server_tools[j])

\* C22: when tools/list and every fallback method were sent to an endpoint
\* whose URL is the connector's and the last answer is still "method not
\* found", the tool set of the turn holds tools of that endpoint.
C22_StaticCatalog ==
    (/\ Visited
     /\ IsComposio(remote_mcp_servers[available_servers[srv - 1]].endpoint)
     /\ ~loc.embedded
     /\ ListingMethods = FixedOrder
     /\ TriesNext(loc.tool_response))
        => /\ server_tools # <<>>
           /\ \E j \in DOMAIN tools : tools[j].server = available_servers[srv - 1]

\* C23: while the first endpoint of a turn is visited, no initialize and
\* no listing request has gone to it if a catalog was read from it in an
\* earlier turn.
C23_CatalogReused ==
    (/\ pc \in {"notify", "list", "alt", "chain"}
     /\ srv = 1
     /\ available_servers[srv] \in listed)
        => \A k \in DOMAIN rpcs :
              rpcs[k].method \notin {"initialize"} \cup ListMethodNames

\* A tools/call that went out with a session token and was answered with
\* HTTP 401.
Expired(log, i) ==
    /\ log[i].method = "tools/call"
    /\ log[i].status = 401
    /\ log[i].session # "none"

\* C24: once a tools/call of a round was rejected as unauthenticated, the
\* token it carried is gone: no later request of the round to the same
\* endpoint carries it, and while the rejected call is the last request
\* the registry does not hold it either.
C24_ExpiredDiscarded ==
    /\ \A i, j \in DOMAIN rpcs :
          (i < j /\ Expired(rpcs, i) /\ rpcs[j].server = rpcs[i].server)
              => rpcs[j].session # rpcs[i].session
    /\ (Len(rpcs) > 0 /\ Expired(rpcs, Len(rpcs)))
          => remote_mcp_servers[rpcs[Len(rpcs)].server].session
                 # rpcs[Len(rpcs)].session

\* C25: a tools/call answered with an HTTP status of 400 or above is
\* recorded as a failure, whatever its body: the tool message of that call
\* holds an error.
C25_ErrorStatusFails ==
    pc \in {"exec", "resubmit"}
        => \A k \in DOMAIN rpcs :
              (rpcs[k].method = "tools/call" /\ rpcs[k].status >= 400)
                  => ToolMessages(llm_messages)[k].result = "error"

\* C26: every completion call of a turn, the first one and each one that
\* follows a round of tool calls, is passed the tool set of the turn.
C26_ToolsResubmitted ==
    Discovered
        => \A k \in DOMAIN submissions : submissions[k].tools = tools

\* The session header of the last initialize response an endpoint gave in
\* this turn, "none" when it gave none.
TurnSession(server) ==
    LET given == {i \in DOMAIN inits :
                     /\ inits[i].server = server
                     /\ inits[i].init_response # NoResp}
    IN  IF given = {} THEN "none"
        ELSE LET last == CHOOSE i \in given : \A j \in given : j <= i
             IN  inits[last].init_response.session

\* C27: once the initialize response of an endpoint carried a session
\* header, every later request of the turn to that endpoint carries that
\* session: the requests of the visit that follow initialize
\* (notifications/initialized, tools/list, the fallbacks) and every
\* tools/call of the rounds.
C27_SessionCarried ==
    /\ pc \in {"notify", "list", "alt", "chain"}
          => \A j, k \in DOMAIN rpcs :
                (/\ j < k
                 /\ rpcs[j].method = "initialize"
                 /\ TurnSession(rpcs[j].server) # "none")
                    => rpcs[k].session = TurnSession(rpcs[j].server)
    /\ pc \in {"exec", "resubmit"}
          => \A k \in DOMAIN rpcs :
                (/\ rpcs[k].method = "tools/call"
                 /\ TurnSession(rpcs[k].server) # "none")
                    => rpcs[k].session = TurnSession(rpcs[k].server)

\* C28: after a successful initialize the visit of an endpoint goes on to
\* the listing whatever becomes of notifications/initialized: a visit
\* whose last request is the notification is one whose initialize result
\* carried the catalog.
C28_NotifyFailureTolerated ==
    (Visited /\ rpcs[Len(rpcs)].method = "notifications/initialized")
        => server_tools # <<>>

\* The endpoints that answered an initialize request of this turn.
Negotiated ==
    {inits[i].server : i \in {j \in DOMAIN inits : inits[j].init_response # NoResp}}

\* The protocol version the last initialize response of an endpoint in this
\* turn echoed, as the handler reads it; "none" when the response was no
\* success or its result echoed no version.
TurnProtocol(server) ==
    LET given == {i \in DOMAIN inits :
                     /\ inits[i].server = server
                     /\ inits[i].init_response # NoResp}
        last == CHOOSE i \in given : \A j \in given : j <= i
    IN  IF inits[last].init_response.status = 200
        THEN ParseInit(inits[last].init_response).version
        ELSE "none"

\* C29: the Mcp-Protocol-Version header of the requests that follow a
\* negotiation (the listing requests of the visit, the tools/call requests
\* of the rounds) is the version its initialize result echoed, and there
\* is no such header when none was echoed.
C29_ProtocolEchoed ==
    \A k \in DOMAIN rpcs :
        (/\ rpcs[k].method \in ListMethodNames \cup {"tools/call"}
         /\ rpcs[k].server \in Negotiated)
            => rpcs[k].protocol = TurnProtocol(rpcs[k].server)

\* The catalog a frame carries.
FrameTools(f) ==
    IF f.kind = "result" /\ f.toolsAt \in {"tools", "serverInfo"}
    THEN f.tools ELSE <<>>

\* C30: of an initialize response that is an event stream, the frame used
\* is the first one that parses: once the response has been read, the
\* catalog taken from it is the one of that frame, none when that frame
\* carries none.
C30_FirstFrameUsed ==
    (/\ pc \in {"list", "server"}
     /\ Len(rpcs) > 0
     /\ rpcs[Len(rpcs)].method = "notifications/initialized"
     /\ loc.init_response.ctype = "sse")
        => server_tools = FrameTools(FirstParsed(loc.init_response.frames, 1))

\* The positions of the events of one type that belong to a tool call.
EventsOf(type, id) ==
    {i \in DOMAIN events : events[i].type = type /\ events[i].id = id}

\* C31: while a round runs and after it, every call executed so far has
\* exactly one tool_call event and exactly one tool_result event; its
\* request went out after the first and before the second; the events of
\* a call come before the events of the next call; and a call not yet
\* executed has no event.
C31_CallEvents ==
    pc \in {"exec", "resubmit"}
        => LET calls == response.tool_calls
           IN  /\ \A k \in 1..(tc - 1) :
                     /\ Cardinality(EventsOf("tool_call", calls[k].id)) = 1
                     /\ Cardinality(EventsOf("tool_result", calls[k].id)) = 1
                     /\ \A i \in EventsOf("tool_call", calls[k].id),
                           j \in EventsOf("tool_result", calls[k].id) :
                           /\ i <= rpcs[k].seen
                           /\ rpcs[k].seen < j
                           /\ \A n \in (k + 1)..(tc - 1) :
                                 \A m \in EventsOf("tool_call", calls[n].id) :
                                     j < m
               /\ \A k \in tc..Len(calls) :
                     /\ EventsOf("tool_call", calls[k].id) = {}
                     /\ EventsOf("tool_result", calls[k].id) = {}

\* A round of two calls is done, the first one sent to an endpoint.
C31_Witness ==
    /\ pc = "resubmit"
    /\ tc = MaxCalls + 1
    /\ Len(response.tool_calls) = MaxCalls
    /\ rpcs[1].method = "tools/call"
    /\ events[rpcs[2].seen].type = "tool_call"


\* C32: no step of the handler changes the record of a registered endpoint:
\* the stored endpoint URL and headers of every registered id stay what
\* they were at registration.
C32_RecordFrozen ==
    [][\A server \in DOMAIN remote_mcp_servers :
          remote_mcp_servers'[server] = remote_mcp_servers[server]]_vars

\* C33: when the last event sent on the connection is the final message
\* or an error event of a turn, the handler is waiting for the next chat
\* request of the same connection.
C33_NextTurn ==
    (Len(events) > 0 /\ events[Len(events)].type \in {"message", "error"})
        => pc = "recv"

\* C34: every tool of the tool set is qualified by a registered remote
\* endpoint: a selected id that is no registered remote endpoint
\* contributes no tool.
C34_OnlyRegisteredContribute ==
    \A j \in DOMAIN tools : tools[j].server \in DOMAIN remote_mcp_servers

\* C35: when the handler of a second connection negotiated the same
\* endpoint concurrently and was given another session than this
\* connection's negotiation, every tools/call of this connection to the
\* endpoint carries the session this connection's own negotiation was
\* given.
C35_OwnSession ==
    pc \in {"exec", "resubmit"}
        => \A k \in DOMAIN rpcs :
              (/\ rpcs[k].method = "tools/call"
               /\ peer.concurrent
               /\ peer.server = rpcs[k].server
               /\ peer.mcp_session_id # "none"
               /\ TurnSession(rpcs[k].server) # "none"
               /\ peer.mcp_session_id # TurnSession(rpcs[k].server))
                  => rpcs[k].session = TurnSession(rpcs[k].server)

\* C36: a chat request for a model whose provider needs a key, on a
\* connection whose requests supplied no key for that provider, is
\* rejected with the missing-key error, whatever key another connection
\* supplied.
C36_KeyPerConnection ==
    (turn > 0 /\ NeedsKey(model) /\ Provider(model) \notin supplied)
        => /\ pc = "recv"
           /\ events = <<Ev("error", 0, "key required")>>

\* C37: the endpoint a user's request to add the connector of an app
\* stored stays stored under the app's connector whatever other users
\* request: when no other request of the same user for the app exists,
\* the connector still has the URL the request answered with.
C37_OwnEndpointKept ==
    \A i \in DOMAIN adds :
       (/\ adds[i].pc = "done"
        /\ \A j \in DOMAIN adds \ {i} :
              adds[j].app_name = adds[i].app_name
                 => adds[j].user_id # adds[i].user_id)
          => remote_mcp_servers[ServerName(adds[i].app_name)].endpoint
                = adds[i].url

\* C38: no upstream call that creates a server for a (user, app) pair is
\* made while the mapping of the pair exists or while another request
\* for the pair is awaiting its own call.
C38_SingleCreation ==
    \A k \in DOMAIN created : ~created[k].mapped /\ ~created[k].pending

\* C39: after a chat request for a model of anthropic, openai or mistral
\* while no key of that provider is known, the turn consists of exactly
\* one error event: no request was sent to an endpoint, no completion
\* call was made, and the handler waits for the next chat request.
C39_MissingKeyRejected ==
    (/\ turn > 0
     /\ Provider(model) \in {"anthropic", "openai", "mistral"}
     /\ Provider(model) \notin user_api_keys)
        => /\ Len(events) = 1
           /\ events[1].type = "error"
           /\ rpcs = <<>>
           /\ submissions = <<>>
           /\ pc = "recv"

\* A request for a mistral model was rejected in the second turn, on a
\* connection that knows the key of another provider.
C39_Witness ==
    /\ turn = 2
    /\ model = "mistral/small"
    /\ user_api_keys # {}
    /\ "mistral" \notin user_api_keys
    /\ events = <<Ev("error", 0, "key required")>>
    /\ pc = "recv"

\* C40: the follow-up model calls of one run of handle_tool_use_response
\* are bounded: a run does not reach MaxDepth follow-up calls, the number
\* the model follows it to.
C40_FollowUpsBounded == tool_use.follow_ups < MaxDepth

=============================================================================
